---- MODULE Spec2Model ----
(***************************************************************************)
(* FraudX detection engine (backend/app/engine): the fusion stages of the  *)
(* pipeline -- scoring, ring merger, output builder -- the pipeline        *)
(* orchestrator and the cycle detector, as state machines.                 *)
(*                                                                         *)
(* Representation                                                          *)
(*   account ids   integers 1..NumAccounts; the integer order stands for   *)
(*                 the lexicographic order of the id strings               *)
(*   scores        integers in thousandths of a point (12.0 is 12000)      *)
(*   pattern label the label string; its lexicographic rank is its         *)
(*                 position in PatternOrder                                *)
(*   ring_id       the digit string that follows "RING_", as a sequence of *)
(*                 digits; "NONE" is the empty sequence                    *)
(*   dict          a function whose DOMAIN is the key set                  *)
(*   set (Python)  a sequence without repetition: its iteration order      *)
(***************************************************************************)
EXTENDS Integers, Sequences, FiniteSets, TLC

\* ------------------------------------------------------------------ bounds
NumAccounts == 5
MaxClusters == 2
NumNodes == 4
MaxCircuits == 2

Accounts == 1..NumAccounts

\* --------------------------------------------------------------- settings
\* suspicious_score_threshold = 12.0, in thousandths
suspicious_score_threshold == 12000

\* ---------------------------------------------------------------- helpers
Min(a, b) == IF a < b THEN a ELSE b
Max(a, b) == IF a > b THEN a ELSE b
Range(s) == {s[i] : i \in 1..Len(s)}

RECURSIVE SumOver(_, _)
SumOver(f, S) ==
    IF S = {} THEN 0
    ELSE LET x == CHOOSE y \in S : TRUE IN f[x] + SumOver(f, S \ {x})

\* dict.get(key, default)
Get(d, k, default) == IF k \in DOMAIN d THEN d[k] ELSE default

\* The elements of the finite set S as the sequence ordered by the strict
\* total order Less (list.sort / sorted() on pairwise distinct keys).
SortedSeq(S, Less(_, _)) ==
    [i \in 1..Cardinality(S) |->
        CHOOSE x \in S : Cardinality({y \in S : Less(y, x)}) = i - 1]

\* sorted(list): a stable sort of a list that may repeat elements.
SortedList(seq, Less(_, _)) ==
    LET LessIdx(i, j) == \/ Less(seq[i], seq[j])
                         \/ (~Less(seq[j], seq[i]) /\ i < j)
        perm == SortedSeq(1..Len(seq), LessIdx)
    IN  [k \in 1..Len(seq) |-> seq[perm[k]]]

\* Lexicographic order of two strings given as sequences of character codes.
LexLess(s, t) ==
    \/ \E i \in 1..Min(Len(s), Len(t)) :
          /\ \A j \in 1..(i - 1) : s[j] = t[j]
          /\ s[i] < t[i]
    \/ (Len(s) < Len(t) /\ \A j \in 1..Len(s) : s[j] = t[j])

\* round(num / den, ndigits) in thousandths, for num in thousandths:
\* unit = 100 rounds to 1 decimal, unit = 10 to 2 decimals.  Exact halves go
\* to the even neighbour (Python's round on exactly representable values).
RoundTo(num, den, unit) ==
    LET q == num \div (den * unit)
        r == num % (den * unit)
    IN  IF 2 * r > den * unit THEN (q + 1) * unit
        ELSE IF 2 * r < den * unit THEN q * unit
        ELSE IF q % 2 = 0 THEN q * unit ELSE (q + 1) * unit

\* ---------------------------------------------------------- pattern labels
\* The closed set of labels the detectors emit, in lexicographic order.
PatternOrder ==
    << "burst_activity", "cycle_length_3", "cycle_length_4", "cycle_length_5",
       "dormancy_break", "high_velocity", "shell_intermediary", "shell_source",
       "smurfing_fan_in", "smurfing_fan_out", "velocity_spike" >>
Patterns == Range(PatternOrder)
PatternRank(p) == CHOOSE i \in 1..Len(PatternOrder) : PatternOrder[i] = p
PatternLess(p, q) == PatternRank(p) < PatternRank(q)

\* p.startswith("cycle_") etc. on the closed label set
StartsWithCycle(p) == p \in {"cycle_length_3", "cycle_length_4", "cycle_length_5"}
StartsWithSmurfing(p) == p \in {"smurfing_fan_in", "smurfing_fan_out"}
StartsWithShell(p) == p \in {"shell_intermediary", "shell_source"}
\* ring_merger._VELOCITY_PATTERNS
RM_VELOCITY_PATTERNS ==
    {"burst_activity", "high_velocity", "velocity_spike", "dormancy_break"}

\* ------------------------------------------------------------- _UnionFind
UnionFindInit(nodes) ==
    [parent |-> [n \in nodes |-> n], rank |-> [n \in nodes |-> 0]]

RECURSIVE FindRoot(_, _)
FindRoot(parent, x) == IF parent[x] # x THEN FindRoot(parent, parent[x]) ELSE x

RECURSIVE FindPath(_, _)
FindPath(parent, x) ==
    IF parent[x] # x THEN {x} \cup FindPath(parent, parent[x]) ELSE {}

\* find(x): returns the root and points every node on the path at it
find(uf, x) ==
    LET root == FindRoot(uf.parent, x)
        path == FindPath(uf.parent, x)
    IN  [uf EXCEPT !.parent =
            [n \in DOMAIN uf.parent |-> IF n \in path THEN root ELSE uf.parent[n]]]

\* union that re-parents the node y itself instead of the root of its tree
unionLinksNode(uf, x, y) ==
    LET u1 == find(uf, x)
        rx0 == FindRoot(uf.parent, x)
        u2 == find(u1, y)
        ry0 == FindRoot(u1.parent, y)
    IN  IF rx0 = ry0 THEN u2
        ELSE [parent |-> [u2.parent EXCEPT ![y] = rx0],
              rank   |-> IF u2.rank[rx0] = u2.rank[ry0]
                         THEN [u2.rank EXCEPT ![rx0] = @ + 1]
                         ELSE u2.rank]

union(uf, x, y) ==
    LET u1 == find(uf, x)
        rx0 == FindRoot(uf.parent, x)
        u2 == find(u1, y)
        ry0 == FindRoot(u1.parent, y)
        swap == u2.rank[rx0] < u2.rank[ry0]
        rx == IF swap THEN ry0 ELSE rx0
        ry == IF swap THEN rx0 ELSE ry0
    IN  IF rx0 = ry0 THEN u2
        ELSE [parent |-> [u2.parent EXCEPT ![ry] = rx],
              rank   |-> IF u2.rank[rx] = u2.rank[ry]
                         THEN [u2.rank EXCEPT ![rx] = @ + 1]
                         ELSE u2.rank]

\* get_groups().values(): the node sets per root
get_groups(uf) ==
    {{n \in DOMAIN uf.parent : FindRoot(uf.parent, n) = r} :
        r \in {FindRoot(uf.parent, n) : n \in DOMAIN uf.parent}}

\* ------------------------------------------------------------ ring merger
\* f"RING_{ring_counter:03d}": the decimal digits, zero-padded to width 3
RECURSIVE Digits(_)
Digits(n) == IF n < 10 THEN <<n>> ELSE Append(Digits(n \div 10), n % 10)

RECURSIVE ZeroPad(_, _)
ZeroPad(ds, width) == IF Len(ds) >= width THEN ds ELSE ZeroPad(<<0>> \o ds, width)

FormatRingId(ring_counter) == ZeroPad(Digits(ring_counter), 3)
NONE == <<>>

\* every label of one account, the suppressed ones included
RawPatterns(acc, combined_flags, suppressed_flags) == Get(combined_flags, acc, <<>>)

\* effective (post-suppression) labels of one account, in flag order
EffectivePatterns(acc, combined_flags, suppressed_flags) ==
    LET removed == Range(Get(suppressed_flags, acc, <<>>))
    IN  SelectSeq(Get(combined_flags, acc, <<>>), LAMBDA p : p \notin removed)

_classify_pattern_type(patterns) ==
    LET has_cycle    == \E p \in patterns : StartsWithCycle(p)
        has_smurfing == \E p \in patterns : StartsWithSmurfing(p)
        has_shell    == \E p \in patterns : StartsWithShell(p)
        has_velocity == patterns \cap RM_VELOCITY_PATTERNS # {}
        active == Cardinality({b \in {<<1, has_cycle>>, <<2, has_smurfing>>,
                                      <<3, has_shell>>, <<4, has_velocity>>} : b[2]})
    IN  IF active > 1 THEN "mixed"
        ELSE IF has_cycle THEN "cycle"
        ELSE IF has_smurfing THEN "smurfing"
        ELSE IF has_shell THEN "shell"
        ELSE IF has_velocity THEN "velocity"
        ELSE "unknown"

\* the risk without the final min(100.0, ...)
_compute_ring_risk_uncapped(group, scores, ring_patterns) ==
    LET member_scores == [acc \in group |-> Get(scores, acc, 0)]
        n == Cardinality(group)
        distinct_types ==
            (IF \E p \in ring_patterns : StartsWithCycle(p) THEN 1 ELSE 0)
          + (IF \E p \in ring_patterns : StartsWithSmurfing(p) THEN 1 ELSE 0)
          + (IF \E p \in ring_patterns : StartsWithShell(p) THEN 1 ELSE 0)
        pattern_bonus == Min(15000, (distinct_types - 1) * 5000)
        cycle3_bonus == IF "cycle_length_3" \in ring_patterns THEN 10000 ELSE 0
    IN  RoundTo(SumOver(member_scores, group) + n * (pattern_bonus + cycle3_bonus),
                n, 100)

_compute_ring_risk(group, scores, ring_patterns) ==
    LET member_scores == [acc \in group |-> Get(scores, acc, 0)]
        n == Cardinality(group)
        distinct_types ==
            (IF \E p \in ring_patterns : StartsWithCycle(p) THEN 1 ELSE 0)
          + (IF \E p \in ring_patterns : StartsWithSmurfing(p) THEN 1 ELSE 0)
          + (IF \E p \in ring_patterns : StartsWithShell(p) THEN 1 ELSE 0)
        pattern_bonus == Min(15000, (distinct_types - 1) * 5000)
        cycle3_bonus == IF "cycle_length_3" \in ring_patterns THEN 10000 ELSE 0
    IN  Min(100000,
            RoundTo(SumOver(member_scores, group) + n * (pattern_bonus + cycle3_bonus),
                    n, 100))

\* the universe with the strict comparison of the module docstring
SuspiciousUniverseStrict(scores) ==
    {acc \in DOMAIN scores : scores[acc] > suspicious_score_threshold}

\* Step 1: the Union-Find universe
SuspiciousUniverse(scores) ==
    {acc \in DOMAIN scores : scores[acc] >= suspicious_score_threshold}

\* Step 3, one cluster: union(members[0], members[i]) for i = 1 .. len-1
RECURSIVE UnionMembers(_, _, _)
UnionMembers(uf, members, i) ==
    IF i > Len(members) THEN uf
    ELSE UnionMembers(union(uf, members[1], members[i]), members, i + 1)

RECURSIVE UnionClusters(_, _, _)
UnionClusters(uf, all_clusters, suspicious) ==
    IF all_clusters = <<>> THEN uf
    ELSE LET members == SelectSeq(Head(all_clusters), LAMBDA m : m \in suspicious)
         IN  UnionClusters(UnionMembers(uf, members, 2), Tail(all_clusters), suspicious)

\* key=lambda g: (-len(g), min(g))
GroupLess(g, h) ==
    \/ Cardinality(g) > Cardinality(h)
    \/ /\ Cardinality(g) = Cardinality(h)
       /\ (CHOOSE a \in g : \A b \in g : a <= b) < (CHOOSE a \in h : \A b \in h : a <= b)

RingInfo(ring_counter, group, scores, combined_flags, suppressed_flags) ==
    LET ring_patterns ==
            UNION {Range(EffectivePatterns(acc, combined_flags, suppressed_flags)) :
                      acc \in group}
    IN  [ring_id         |-> FormatRingId(ring_counter),
         member_accounts |-> SortedSeq(group, LAMBDA a, b : a < b),
         pattern_type    |-> _classify_pattern_type(ring_patterns),
         risk_score      |-> _compute_ring_risk(group, scores, ring_patterns)]

\* rings built without the `len(group) < 2` guard
BuildRingsKeepSingletons(groups, scores, combined_flags, suppressed_flags) ==
    LET sorted_groups == SortedSeq(groups, GroupLess)
    IN  [i \in 1..Len(sorted_groups) |->
            RingInfo(i, sorted_groups[i], scores, combined_flags, suppressed_flags)]

\* Step 4: rings from the sorted groups; singletons are skipped before the
\* counter is advanced
BuildRings(groups, scores, combined_flags, suppressed_flags) ==
    LET sorted_groups == SortedSeq(groups, GroupLess)
        multi == SelectSeq(sorted_groups, LAMBDA g : ~(Cardinality(g) < 2))
    IN  [i \in 1..Len(multi) |->
            RingInfo(i, multi[i], scores, combined_flags, suppressed_flags)]

merge_rings(all_clusters, scores, combined_flags, suppressed_flags) ==
    LET suspicious == SuspiciousUniverse(scores)
    IN  IF suspicious = {} THEN <<>>
        ELSE BuildRings(get_groups(UnionClusters(UnionFindInit(suspicious),
                                                 all_clusters, suspicious)),
                        scores, combined_flags, suppressed_flags)

\* --------------------------------------------------------- output builder
\* the lookup with every member mapped to the first ring's id
AccountToFirstRing(rings) ==
    [acc \in UNION {Range(rings[i].member_accounts) : i \in 1..Len(rings)} |->
        rings[1].ring_id]

\* account_to_ring[acc] = ring.ring_id, ring by ring: a later ring of the
\* list overwrites an earlier one
AccountToRing(rings) ==
    [acc \in UNION {Range(rings[i].member_accounts) : i \in 1..Len(rings)} |->
        LET last == CHOOSE i \in 1..Len(rings) :
                       /\ acc \in Range(rings[i].member_accounts)
                       /\ \A j \in (i + 1)..Len(rings) :
                             acc \notin Range(rings[j].member_accounts)
        IN  rings[last].ring_id]

\* the docstring's rule: only scores above the threshold
IsEmittedAbove(score) == score > suspicious_score_threshold

\* `if score < threshold: continue`
IsEmitted(score) == ~(score < suspicious_score_threshold)

SuspiciousAccount(acc, score, combined_flags, suppressed_flags, account_to_ring) ==
    [account_id        |-> acc,
     suspicion_score   |-> RoundTo(score, 1, 10),
     detected_patterns |-> SortedList(EffectivePatterns(acc, combined_flags,
                                                        suppressed_flags),
                                      PatternLess),
     ring_id           |-> Get(account_to_ring, acc, NONE)]

\* the key without the score
AccountLessById(a, b) == a.account_id < b.account_id

\* key=lambda a: (-a.suspicion_score, a.account_id)
AccountLess(a, b) ==
    \/ a.suspicion_score > b.suspicion_score
    \/ (a.suspicion_score = b.suspicion_score /\ a.account_id < b.account_id)

\* key=lambda r: (-r.risk_score, r.ring_id)
RingLess(r, s) ==
    \/ r.risk_score > s.risk_score
    \/ (r.risk_score = s.risk_score /\ LexLess(r.ring_id, s.ring_id))

\* The ForensicResult.  Of the summary the two counts of the emitted lists,
\* the node count and the elapsed time are kept; row totals and the edge
\* list of the visualisation graph depend on the transaction table alone.
build_output(scores, combined_flags, suppressed_flags, rings, G_nodes, elapsed_seconds) ==
    LET account_to_ring == AccountToRing(rings)
        emitted == {acc \in DOMAIN scores : IsEmitted(scores[acc])}
        suspicious_accounts ==
            SortedSeq({SuspiciousAccount(acc, scores[acc], combined_flags,
                                         suppressed_flags, account_to_ring) :
                          acc \in emitted},
                      AccountLess)
        fraud_rings == SortedSeq(Range(rings), RingLess)
    IN  [suspicious_accounts |-> suspicious_accounts,
         fraud_rings         |-> fraud_rings,
         summary |-> [total_accounts_analyzed     |-> Cardinality(G_nodes),
                      suspicious_accounts_flagged |-> Len(suspicious_accounts),
                      fraud_rings_detected        |-> Len(fraud_rings),
                      \* round(elapsed_seconds, 4), elapsed_seconds being
                      \* given in ten-thousandths of a second
                      processing_time_seconds     |-> elapsed_seconds],
         graph_nodes |-> {a.account_id : a \in Range(suspicious_accounts)} \cap G_nodes]

\* ---------------------------------------------------------------- scoring
\* Python values as the interpreter sees them at a call: a float, a list, a
\* dict of such values, or an object the callee does not look into.
PyFloat(x) == [type |-> "float", value |-> x]
PyList(seq) == [type |-> "list", items |-> seq]
PyDict(d) == [type |-> "dict", items |-> d]
PyObject == [type |-> "object"]
PyScores(d) == PyDict([k \in DOMAIN d |-> PyFloat(d[k])])
PyFlags(d) == PyDict([k \in DOMAIN d |-> PyList(d[k])])
Iterable == {"list", "dict"}

\* {}
EmptyDict == << >>

Returned(v) == [exc |-> "none", value |-> v]
Raised(e) == [exc |-> e, value |-> EmptyDict]

\* Binding of a call's arguments to parameters without defaults: too many
\* positional arguments, an unknown keyword, a parameter given twice or a
\* parameter not given each raise TypeError before the body runs.
BindArguments(params, args, kwargs) ==
    IF \/ Len(args) > Len(params)
       \/ \E k \in DOMAIN kwargs : k \notin Range(params)
       \/ \E i \in 1..Min(Len(args), Len(params)) : params[i] \in DOMAIN kwargs
       \/ \E i \in (Len(args) + 1)..Len(params) : params[i] \notin DOMAIN kwargs
    THEN Raised("TypeError")
    ELSE Returned([i \in 1..Len(params) |->
                      IF i <= Len(args) THEN args[i] ELSE kwargs[params[i]]])

_PATTERN_SCORES ==
    [p \in Patterns |->
        CASE p = "cycle_length_3"     -> 40000
          [] p = "cycle_length_4"     -> 32000
          [] p = "cycle_length_5"     -> 25000
          [] p = "smurfing_fan_in"    -> 25000
          [] p = "smurfing_fan_out"   -> 22000
          [] p = "shell_intermediary" -> 20000
          [] p = "shell_source"       -> 15000
          [] p = "burst_activity"     -> 15000
          [] p = "dormancy_break"     -> 13000
          [] p = "high_velocity"      -> 11000
          [] p = "velocity_spike"     -> 9000]
_CYCLE_PATTERNS == {"cycle_length_3", "cycle_length_4", "cycle_length_5"}
_SMURFING_PATTERNS == {"smurfing_fan_in", "smurfing_fan_out"}
_SHELL_PATTERNS == {"shell_intermediary", "shell_source"}
_VELOCITY_PATTERNS ==
    {"burst_activity", "dormancy_break", "high_velocity", "velocity_spike"}
_VELOCITY_ONLY_CAP == 35000

\* max(..., default=0) over a set of integers
MaxOrZero(S) == IF S = {} THEN 0 ELSE CHOOSE m \in S : \A n \in S : n <= m

_score_patterns(patterns) ==
    IF patterns = << >> THEN 0
    ELSE
      LET pattern_set == Range(patterns)
          best(category) == MaxOrZero({_PATTERN_SCORES[p] : p \in pattern_set \cap category})
          cycle_score == best(_CYCLE_PATTERNS)
          smurfing_score == best(_SMURFING_PATTERNS)
          shell_score == best(_SHELL_PATTERNS)
          velocity_score == best(_VELOCITY_PATTERNS)
          total == cycle_score + smurfing_score + shell_score + velocity_score
      IN  IF cycle_score = 0 /\ smurfing_score = 0 /\ shell_score = 0
          THEN Min(total, _VELOCITY_ONLY_CAP) ELSE total

\* compute_scores(combined_flags, suppressed_flags, G, settings): the body
\* iterates the values of its first argument as label lists and builds a
\* set from the second argument's entry; either raises TypeError on a float.
compute_scores(combined_flags, suppressed_flags, G, settings) ==
    LET removed(account) == Get(suppressed_flags.items, account, PyList(<< >>))
        raw_patterns(account) == combined_flags.items[account]
    IN  IF \E account \in DOMAIN combined_flags.items :
              \/ removed(account).type \notin Iterable
              \/ raw_patterns(account).type \notin Iterable
        THEN Raised("TypeError")
        ELSE Returned(
               [account \in DOMAIN combined_flags.items |->
                   _score_patterns(
                      SelectSeq(raw_patterns(account).items,
                                LAMBDA p : p \notin Range(removed(account).items)))])

compute_scores_params == << "combined_flags", "suppressed_flags", "G", "settings" >>

\* a call compute_scores(*args, **kwargs)
CallComputeScores(args, kwargs) ==
    LET bound == BindArguments(compute_scores_params, args, kwargs)
    IN  IF bound.exc # "none" THEN bound
        ELSE compute_scores(bound.value[1], bound.value[2], bound.value[3], bound.value[4])

\* ----------------------------------------------------------- graph builder
\* The transaction table is a sequence of rows
\* [sender_id, receiver_id, amount, timestamp]; amounts are whole currency
\* units, timestamps whole hours.
RowsOf(df) == {df[i] : i \in 1..Len(df)}

\* float(df["amount"].median()), doubled: the middle amount, or the sum of
\* the two middle amounts of an even number of rows
Median2(df) ==
    LET amounts == SortedList([i \in 1..Len(df) |-> df[i].amount], LAMBDA a, b : a < b)
        n == Len(amounts)
    IN  IF n % 2 = 1 THEN 2 * amounts[(n + 1) \div 2]
        ELSE amounts[n \div 2] + amounts[n \div 2 + 1]

\* df[column].nunique() per value of the other column: the number of
\* distinct counterparties
value_counts_of_neighbours(df, column) ==
    LET other == IF column = "sender_id" THEN "receiver_id" ELSE "sender_id"
        values == {df[i][column] : i \in 1..Len(df)}
    IN  [v \in values |->
            Cardinality({df[i][other] : i \in {i \in 1..Len(df) : df[i][column] = v}})]

\* df[column].value_counts(), counting every occurrence of a value
RECURSIVE value_counts(_, _)
value_counts(df, column) ==
    IF df = << >> THEN EmptyDict
    ELSE LET counts == value_counts(SubSeq(df, 1, Len(df) - 1), column)
             value == df[Len(df)][column]
         IN  [v \in DOMAIN counts \cup {value} |->
                 Get(counts, v, 0) + (IF v = value THEN 1 ELSE 0)]

\* counts.reindex(index, fill_value=0)
reindex(counts, index) == [acc \in index |-> Get(counts, acc, 0)]

\* df.groupby(["sender_id", "receiver_id"], sort=False)["amount"]
\*   .agg(weight="sum", count="count"): one entry per pair
RECURSIVE groupby_agg(_)
groupby_agg(df) ==
    IF df = << >> THEN EmptyDict
    ELSE LET groups == groupby_agg(SubSeq(df, 1, Len(df) - 1))
             row == df[Len(df)]
             pair == << row.sender_id, row.receiver_id >>
             seen == Get(groups, pair, [weight |-> 0, count |-> 0])
         IN  [e \in DOMAIN groups \cup {pair} |->
                 IF e = pair
                 THEN [weight |-> seen.weight + row.amount, count |-> seen.count + 1]
                 ELSE groups[e]]

build_graph(df) ==
    LET sender_counts == value_counts(df, "sender_id")
        receiver_counts == value_counts(df, "receiver_id")
        all_accounts == DOMAIN sender_counts \cup DOMAIN receiver_counts
        out_cnt == reindex(sender_counts, all_accounts)
        in_cnt == reindex(receiver_counts, all_accounts)
    IN  [nodes |-> [acc \in all_accounts |->
                       [total_transactions |-> out_cnt[acc] + in_cnt[acc],
                        out_degree_count   |-> out_cnt[acc],
                        in_degree_count    |-> in_cnt[acc]]],
         edges |-> groupby_agg(df)]

\* df.groupby(["sender_id", "receiver_id"])["timestamp"].agg(min, max)
EdgeTimestamps(df) ==
    LET pairs == {<< r.sender_id, r.receiver_id >> : r \in RowsOf(df)}
        ts(e) == {r.timestamp : r \in {r \in RowsOf(df) :
                                          r.sender_id = e[1] /\ r.receiver_id = e[2]}}
    IN  [e \in pairs |->
            [ts_min |-> CHOOSE t \in ts(e) : \A u \in ts(e) : t <= u,
             ts_max |-> CHOOSE t \in ts(e) : \A u \in ts(e) : u <= t]]

\* ---------------------------------------------------------- cycle detector
_MAX_SCC_SIZE == 50
_MAX_CYCLES_PER_SCC == 500
min_cycle_length == 3
max_cycle_length == 5
\* cycle_volume_threshold_pct = 0.01, as a divisor
cycle_volume_threshold_div == 100

\* nodes reachable from the nodes of S along edges
RECURSIVE ReachableFrom(_, _)
ReachableFrom(S, edgeset) ==
    LET next == S \cup {e[2] : e \in {e \in edgeset : e[1] \in S}}
    IN  IF next = S THEN S ELSE ReachableFrom(next, edgeset)

\* nx.strongly_connected_components(G), as a set of node sets
strongly_connected_components(graph) ==
    LET edgeset == DOMAIN graph.edges
        scc(n) == {m \in ReachableFrom({n}, edgeset) : n \in ReachableFrom({m}, edgeset)}
    IN  {scc(n) : n \in DOMAIN graph.nodes}

\* the simple paths that extend a path of P by one edge, through nodes
\* larger than the path's first node
ExtendPaths(P, edgeset) ==
    {Append(pe[1], pe[2][2]) :
        pe \in {pe \in P \X edgeset :
                   /\ pe[2][1] = pe[1][Len(pe[1])]
                   /\ pe[2][2] > pe[1][1]
                   /\ pe[2][2] \notin Range(pe[1])}}

RECURSIVE PathsFrom(_, _)
PathsFrom(P, edgeset) ==
    IF P = {} THEN {} ELSE P \cup PathsFrom(ExtendPaths(P, edgeset), edgeset)

\* nx.simple_cycles(G.subgraph(scc)): every elementary circuit once, here
\* written from its smallest node
simple_cycles(scc, graph) ==
    LET edgeset == {e \in DOMAIN graph.edges : e[1] \in scc /\ e[2] \in scc}
    IN  {path \in PathsFrom({<< n >> : n \in scc}, edgeset) :
            << path[Len(path)], path[1] >> \in edgeset}

Rotate(cycle, k) ==
    [i \in 1..Len(cycle) |-> cycle[((i + k - 1) % Len(cycle)) + 1]]

CycleVolume(cycle, graph) ==
    SumOver([i \in 1..Len(cycle) |->
                graph.edges[<< cycle[i], cycle[(i % Len(cycle)) + 1] >>].weight],
            1..Len(cycle))

\* 10000 * 10^(k/100), k = 0..100
Pow10Table ==
    << 10000, 10233, 10471, 10715, 10965, 11220, 11482, 11749, 12023, 12303,
       12589, 12882, 13183, 13490, 13804, 14125, 14454, 14791, 15136, 15488,
       15849, 16218, 16596, 16982, 17378, 17783, 18197, 18621, 19055, 19498,
       19953, 20417, 20893, 21380, 21878, 22387, 22909, 23442, 23988, 24547,
       25119, 25704, 26303, 26915, 27542, 28184, 28840, 29512, 30200, 30903,
       31623, 32359, 33113, 33884, 34674, 35481, 36308, 37154, 38019, 38905,
       39811, 40738, 41687, 42658, 43652, 44668, 45709, 46774, 47863, 48978,
       50119, 51286, 52481, 53703, 54954, 56234, 57544, 58884, 60256, 61660,
       63096, 64565, 66069, 67608, 69183, 70795, 72444, 74131, 75858, 77625,
       79433, 81283, 83176, 85114, 87096, 89125, 91201, 93325, 95499, 97724,
       100000 >>

\* 1000 * log10(num/den) for num >= den, from Pow10Table with linear
\* interpolation between entries (within 0.1 of the exact value)
RECURSIVE Log10Milli(_, _)
Log10Milli(num, den) ==
    IF num >= 10 * den THEN 1000 + Log10Milli(num, 10 * den)
    ELSE LET m == (10000 * num) \div den
             k == CHOOSE k \in 1..100 : Pow10Table[k] <= m /\ m < Pow10Table[k + 1]
         IN  10 * (k - 1)
             + (10 * (m - Pow10Table[k])) \div (Pow10Table[k + 1] - Pow10Table[k])

\* _score_cycle, in thousandths.  With L = 1000 * log10(volume / median)
\* capped to 0..3000 (f_volume = L / 3000) and v = 168 - min(168, span_hours)
\* (f_velocity = v / 168), 40 * raw = 16 * f_length + 7 * L / 1500 + 5 * v / 84
\*                                  = (168000 * f_length + 49 * L + 625 * v) / 10500
_score_cycle(cycle, volume, edge_ts, median2) ==
    LET length == Len(cycle)
        length_term == IF max_cycle_length > min_cycle_length
                       THEN (168000 * (max_cycle_length - length))
                               \div (max_cycle_length - min_cycle_length)
                       ELSE 168000
        L == IF median2 > 0
             THEN (IF 2 * volume <= median2 THEN 0
                   ELSE Min(3000, Log10Milli(2 * volume, median2)))
             ELSE 0
        all_ts == UNION {{edge_ts[<< cycle[i], cycle[(i % length) + 1] >>].ts_min,
                          edge_ts[<< cycle[i], cycle[(i % length) + 1] >>].ts_max} :
                            i \in 1..length}
        span_hours == (CHOOSE t \in all_ts : \A u \in all_ts : u <= t)
                      - (CHOOSE t \in all_ts : \A u \in all_ts : t <= u)
        v == 168 - Min(168, span_hours)
    IN  RoundTo(1000 * (length_term + 49 * L + 625 * v), 10500, 10)

\* ------------------------------------------------------------------ state
VARIABLES
    pc,                       \* position of the call in progress
    algo_results,             \* the four AlgorithmResults, in detector order
    combined_flags,           \* account -> list of labels
    ring_clusters,            \* list of clusters handed to merge_rings
    suppressed_flags,         \* account -> labels hidden from display
    suppression_multipliers,  \* account -> multiplier (tenths)
    scores,                   \* account -> final score (thousandths)
    rings,                    \* list of RingInfo
    result,                   \* the ForensicResult, or NoResult
    error,                    \* the exception raised, or "none"
    df,                       \* the transaction table
    G,                        \* the graph built from it
    detector                  \* locals of the detector run in progress

vars == << pc, algo_results, combined_flags, ring_clusters, suppressed_flags,
           suppression_multipliers, scores, rings, result, error, df, G, detector >>

NoResult == [suspicious_accounts |-> <<>>, fraud_rings |-> <<>>,
             summary |-> [total_accounts_analyzed |-> 0,
                          suspicious_accounts_flagged |-> 0,
                          fraud_rings_detected |-> 0,
                          processing_time_seconds |-> 0],
             graph_nodes |-> {}]

NoGraph == [nodes |-> EmptyDict, edges |-> EmptyDict]
\* caps holds the two limits of the enumeration, _MAX_SCC_SIZE and
\* _MAX_CYCLES_PER_SCC; considered counts the cycles the loop over
\* nx.simple_cycles has taken from the generator in the current SCC.
CycleCaps == [max_scc_size |-> _MAX_SCC_SIZE, max_cycles_per_scc |-> _MAX_CYCLES_PER_SCC]
NoDetector == [median2 |-> 0, edge_ts |-> EmptyDict, caps |-> CycleCaps, considered |-> 0,
               sccs |-> {}, pending |-> {}, cycles_in_scc |-> 0, seen_cycles |-> {},
               result |-> [account_flags |-> EmptyDict, account_scores |-> EmptyDict,
                           clusters |-> << >>]]

\* Iteration orders of a Python set of account ids: the order of the hash
\* table, which differs from run to run.  h maps an account to its slot.
HashOrders ==
    { [a \in Accounts |-> a],
      [a \in Accounts |-> NumAccounts + 1 - a],
      [a \in Accounts |-> ((a + 1) % NumAccounts) + 1] }
IterOrder(S, h) == SortedSeq(S, LAMBDA a, b : h[a] < h[b])

IndexPerms(n) ==
    {f \in [1..n -> 1..n] : \A i, j \in 1..n : i # j => f[i] # f[j]}

\* ------------------------------------------ merge_rings, called on its own
\* Inputs as the unit tests of the ring merger give them: clusters over the
\* accounts (any pair, any three consecutive accounts), scores on either
\* side of the threshold.
ClusterSets ==
    ({{a, b} : a, b \in Accounts} \ {{a} : a \in Accounts})
    \cup {{a, a + 1, a + 2} : a \in 1..(NumAccounts - 2)}
RECURSIVE SetCode(_)
SetCode(c) ==
    IF c = {} THEN 0
    ELSE LET x == CHOOSE y \in c : TRUE IN 2 ^ x + SetCode(c \ {x})
\* the subsets of S with at most k elements
RECURSIVE SubsetsUpTo(_, _)
SubsetsUpTo(S, k) ==
    IF k = 0 THEN {{}}
    ELSE LET smaller == SubsetsUpTo(S, k - 1)
         IN  smaller \cup {sub \cup {x} : sub \in smaller, x \in S}
ClusterLists ==
    {SortedSeq(cs, LAMBDA c, d : SetCode(c) < SetCode(d)) :
        cs \in SubsetsUpTo(ClusterSets, MaxClusters)}

\* Score maps: every account has the score of its profile (12.0 exactly,
\* 19.0 or 12.004), except that one account, or every account, may be just
\* below the threshold.
ScoreProfile(acc) ==
    CASE acc % 3 = 1 -> suspicious_score_threshold
      [] acc % 3 = 2 -> suspicious_score_threshold + 7000
      [] OTHER       -> suspicious_score_threshold + 4
ScoreBelow == suspicious_score_threshold - 4
ScoreMapsOver(keys) ==
    {[acc \in keys |-> IF acc \in below THEN ScoreBelow ELSE ScoreProfile(acc)] :
        below \in {{}, keys} \cup {{acc} : acc \in keys}}
ScoreMaps == ScoreMapsOver(Accounts)

FlagProfile(acc) ==
    CASE acc % 3 = 1 -> << "cycle_length_3" >>
      [] acc % 3 = 2 -> << "cycle_length_4", "smurfing_fan_in" >>
      [] OTHER       -> << "shell_source", "burst_activity" >>
SuppressedChoices ==
    { EmptyDict, [acc \in {2} |-> << "smurfing_fan_in" >>] }

InitRings ==
    /\ pc = "merge_rings"
    /\ algo_results = << >>
    /\ combined_flags = [acc \in Accounts |-> FlagProfile(acc)]
    /\ ring_clusters \in ClusterLists
    /\ suppressed_flags \in SuppressedChoices
    /\ suppression_multipliers = EmptyDict
    /\ scores \in ScoreMaps
    /\ rings = << >>
    /\ result = NoResult
    /\ error = "none"
    /\ df = << >>
    /\ G = NoGraph
    /\ detector = NoDetector

\* merge_rings(all_clusters, scores, combined_flags, suppressed_flags, settings)
\* for every order of the cluster list and every iteration order of a cluster
MergeRingsCall ==
    /\ pc = "merge_rings"
    /\ \E perm \in IndexPerms(Len(ring_clusters)), h \in HashOrders :
          rings' = merge_rings(
                      [i \in 1..Len(ring_clusters) |-> IterOrder(ring_clusters[perm[i]], h)],
                      scores, combined_flags, suppressed_flags)
    /\ pc' = "returned"
    /\ UNCHANGED << algo_results, combined_flags, ring_clusters, suppressed_flags,
                    suppression_multipliers, scores, result, error,
                    df, G, detector >>

NextRings == MergeRingsCall

SpecRings == InitRings /\ [][NextRings]_vars

\* ----------------------------------------------------- algorithm results
\* _add_flag without the `pattern not in flags` test
add_flag_always(account_flags, account_id, pattern) ==
    LET flags == Get(account_flags, account_id, << >>)
    IN  [acc \in DOMAIN account_flags \cup {account_id} |->
            IF acc # account_id THEN account_flags[acc] ELSE Append(flags, pattern)]

\* BaseAlgorithm._add_flag: setdefault, then append unless already present
_add_flag(account_flags, account_id, pattern) ==
    LET flags == Get(account_flags, account_id, << >>)
    IN  [acc \in DOMAIN account_flags \cup {account_id} |->
            IF acc # account_id THEN account_flags[acc]
            ELSE IF pattern \in Range(flags) THEN flags ELSE Append(flags, pattern)]

RECURSIVE FlagEach(_, _, _)
FlagEach(account_flags, members, pattern) ==
    IF members = << >> THEN account_flags
    ELSE FlagEach(_add_flag(account_flags, Head(members), pattern), Tail(members), pattern)

AlgorithmResult == [account_flags |-> EmptyDict, account_scores |-> EmptyDict,
                    clusters |-> << >>]

\* f"cycle_length_{length}"
CycleLabel(length) ==
    CASE length = 3 -> "cycle_length_3"
      [] length = 4 -> "cycle_length_4"
      [] length = 5 -> "cycle_length_5"

\* What the cycle detector records for one kept cycle: the label on every
\* member, the best score per member, the member set as a cluster.
RecordCycle(res, cycle, score) ==
    [account_flags  |-> FlagEach(res.account_flags, cycle, CycleLabel(Len(cycle))),
     account_scores |-> [acc \in DOMAIN res.account_scores \cup Range(cycle) |->
                            IF acc \in Range(cycle) /\ Get(res.account_scores, acc, 0) < score
                            THEN score ELSE res.account_scores[acc]],
     clusters       |-> Append(res.clusters, Range(cycle))]

\* What the shell-chain detector records for one new chain: shell_source on
\* both ends, shell_intermediary inside, the node set as a cluster.
RecordChain(res, new_path, score) ==
    LET n == Len(new_path)
        ends == _add_flag(_add_flag(res.account_flags, new_path[1], "shell_source"),
                          new_path[n], "shell_source")
    IN  [account_flags  |-> FlagEach(ends, SubSeq(new_path, 2, n - 1), "shell_intermediary"),
         account_scores |-> [acc \in DOMAIN res.account_scores \cup Range(new_path) |->
                                IF acc \in Range(new_path)
                                   /\ Get(res.account_scores, acc, 0) < score
                                THEN score ELSE res.account_scores[acc]],
         clusters       |-> Append(res.clusters, Range(new_path))]

\* What the smurfing detector records for one triggering window: the label
\* on the central account only, the central account plus its counterparties
\* as a cluster.
RecordSmurf(res, central, pattern, counterparties, score) ==
    [account_flags  |-> _add_flag(res.account_flags, central, pattern),
     account_scores |-> [acc \in DOMAIN res.account_scores \cup {central} |->
                            IF acc = central /\ Get(res.account_scores, acc, 0) < score
                            THEN score ELSE res.account_scores[acc]],
     clusters       |-> Append(res.clusters, {central} \cup counterparties)]

\* What the velocity detector records for one sub-pattern: label and best
\* score, never a cluster.
RecordVelocity(res, sender, pattern, score) ==
    [account_flags  |-> _add_flag(res.account_flags, sender, pattern),
     account_scores |-> [acc \in DOMAIN res.account_scores \cup {sender} |->
                            IF acc = sender /\ Get(res.account_scores, acc, 0) < score
                            THEN score ELSE res.account_scores[acc]],
     clusters       |-> res.clusters]

\* ------------------------------------------------------------ suppression
_DISPLAY_SUPPRESS_THRESHOLD == 2
PayrollTiers == {1, 2, 5, 10}
MerchantTiers == {1, 2, 5, 8, 10}

\* apply_suppression for one account, with the removal decided on the
\* account's final multiplier
SuppressionOfByMinimum(patterns, payroll, merchant) ==
    LET out == "smurfing_fan_out" \in Range(patterns)
        inn == "smurfing_fan_in" \in Range(patterns)
        m1 == IF out /\ payroll < 10 THEN payroll ELSE 10
        m2 == IF inn /\ merchant < m1 THEN merchant ELSE m1
    IN  [multiplier |-> m2,
         removed |-> (IF out /\ m2 <= _DISPLAY_SUPPRESS_THRESHOLD
                      THEN << "smurfing_fan_out" >> ELSE << >>)
                  \o (IF inn /\ m2 <= _DISPLAY_SUPPRESS_THRESHOLD
                      THEN << "smurfing_fan_in" >> ELSE << >>)]

\* apply_suppression for one account; multipliers in tenths.  payroll and
\* merchant give the value the two rules return for the account.
SuppressionOf(patterns, payroll, merchant) ==
    LET out == "smurfing_fan_out" \in Range(patterns)
        inn == "smurfing_fan_in" \in Range(patterns)
        m1 == IF out /\ payroll < 10 THEN payroll ELSE 10
        m2 == IF inn /\ merchant < m1 THEN merchant ELSE m1
    IN  [multiplier |-> m2,
         removed |-> (IF out /\ payroll <= _DISPLAY_SUPPRESS_THRESHOLD
                      THEN << "smurfing_fan_out" >> ELSE << >>)
                  \o (IF inn /\ merchant <= _DISPLAY_SUPPRESS_THRESHOLD
                      THEN << "smurfing_fan_in" >> ELSE << >>)]

apply_suppression(flags, payroll, merchant) ==
    LET one(acc) == SuppressionOf(flags[acc], Get(payroll, acc, 10), Get(merchant, acc, 10))
    IN  [suppressed_flags |->
            [acc \in {a \in DOMAIN flags : one(a).removed # << >>} |-> one(acc).removed],
         suppression_multipliers |->
            [acc \in {a \in DOMAIN flags : one(a).multiplier < 10} |-> one(acc).multiplier]]

\* What _payroll_multiplier and _merchant_multiplier can return for the
\* accounts the rules are applied to: any tier.
RuleOutcomes(flags) ==
    [payroll  : [{acc \in DOMAIN flags : "smurfing_fan_out" \in Range(flags[acc])}
                    -> PayrollTiers],
     merchant : [{acc \in DOMAIN flags : "smurfing_fan_in" \in Range(flags[acc])}
                    -> MerchantTiers]]

\* --------------------------------------------------------------- pipeline
_ALL_ALGORITHM_CLASSES ==
    << "CycleDetectionAlgorithm", "SmurfingAlgorithm",
       "ShellChainAlgorithm", "VelocityAlgorithm" >>
RingClassesAll == Range(_ALL_ALGORITHM_CLASSES)
_RING_ALGORITHM_CLASSES == {"CycleDetectionAlgorithm", "ShellChainAlgorithm"}

\* combined_flags.setdefault(acc, []).extend(patterns), detector by detector
RECURSIVE CombineFlags(_, _)
CombineFlags(results, i) ==
    IF i = 0 THEN EmptyDict
    ELSE LET before == CombineFlags(results, i - 1)
             flags == results[i].account_flags
         IN  [acc \in DOMAIN before \cup DOMAIN flags |->
                 Get(before, acc, << >>) \o Get(flags, acc, << >>)]

\* ring_clusters.extend(r.clusters) for the ring-forming detectors only
RECURSIVE CollectRingClusters(_, _)
CollectRingClusters(results, i) ==
    IF i = 0 THEN << >>
    ELSE CollectRingClusters(results, i - 1)
         \o (IF _ALL_ALGORITHM_CLASSES[i] \in _RING_ALGORITHM_CLASSES
             THEN results[i].clusters ELSE << >>)

\* Detector results the pipeline can receive.  Cycle clusters are triangles
\* over three consecutive accounts; there is at most one shell chain, at
\* most one smurfing window, and velocity labels on the first and the last
\* account.
CycleChoices ==
    {SortedSeq(cs, LAMBDA c, d : SetCode(c) < SetCode(d)) :
        cs \in {cs \in SUBSET {{i, i + 1, i + 2} : i \in 1..(NumAccounts - 2)} :
                   Cardinality(cs) <= MaxClusters}}
ShellChoices == { << >>, << << 1, 2, 3, 4 >> >> }
SmurfChoices ==
    { << >> } \cup
    { << << central, pattern >> >> :
         central \in Accounts, pattern \in {"smurfing_fan_in", "smurfing_fan_out"} }

RECURSIVE CycleResultOf(_)
CycleResultOf(cycles) ==
    IF cycles = << >> THEN AlgorithmResult
    ELSE RecordCycle(CycleResultOf(SubSeq(cycles, 1, Len(cycles) - 1)),
                     IterOrder(cycles[Len(cycles)], [a \in Accounts |-> a]), 30000)
ShellResultOf(chains) ==
    IF chains = << >> THEN AlgorithmResult ELSE RecordChain(AlgorithmResult, chains[1], 10000)
SmurfResultOf(windows) ==
    IF windows = << >> THEN AlgorithmResult
    ELSE RecordSmurf(AlgorithmResult, windows[1][1], windows[1][2],
                     Accounts \ {windows[1][1]}, 20000)
VelocityResultOf ==
    RecordVelocity(
        RecordVelocity(
            RecordVelocity(AlgorithmResult, NumAccounts, "burst_activity", 9000),
            NumAccounts, "high_velocity", 6000),
        1, "velocity_spike", 15000)

FlaggedAccounts(results) ==
    UNION {DOMAIN results[i].account_flags : i \in 1..Len(results)}

InitDetected ==
    /\ pc = "run_algorithms"
    /\ \E cycles \in CycleChoices, chains \in ShellChoices, windows \in SmurfChoices :
          algo_results = << CycleResultOf(cycles), SmurfResultOf(windows),
                            ShellResultOf(chains), VelocityResultOf >>
    /\ combined_flags = EmptyDict
    /\ ring_clusters = << >>
    /\ suppressed_flags = EmptyDict
    /\ suppression_multipliers = EmptyDict
    /\ scores = EmptyDict
    /\ rings = << >>
    /\ result = NoResult
    /\ error = "none"
    /\ df = << >>
    /\ G = NoGraph
    /\ detector = NoDetector

\* Step 2 of run_pipeline: the loop over _ALL_ALGORITHM_CLASSES
RunAlgorithms ==
    /\ pc = "run_algorithms"
    /\ combined_flags' = CombineFlags(algo_results, Len(algo_results))
    /\ ring_clusters' = CollectRingClusters(algo_results, Len(algo_results))
    /\ pc' = "apply_suppression"
    /\ UNCHANGED << algo_results, suppressed_flags, suppression_multipliers,
                    scores, rings, result, error,
                    df, G, detector >>

\* Step 3: apply_suppression; what the payroll and merchant rules return for
\* an account is any of their tiers
ApplySuppression ==
    /\ pc = "apply_suppression"
    /\ \E rules \in RuleOutcomes(combined_flags) :
          LET sup == apply_suppression(combined_flags, rules.payroll, rules.merchant)
          IN  /\ suppressed_flags' = sup.suppressed_flags
              /\ suppression_multipliers' = sup.suppression_multipliers
    /\ pc' = "compute_scores"
    /\ UNCHANGED << algo_results, combined_flags, ring_clusters, scores, rings,
                    result, error,
                    df, G, detector >>

\* Step 5: merge_rings(ring_clusters, scores, combined_flags, suppressed_flags)
MergeRings ==
    /\ pc = "merge_rings"
    /\ \E h \in HashOrders :
          rings' = merge_rings(
                      [i \in 1..Len(ring_clusters) |-> IterOrder(ring_clusters[i], h)],
                      scores, combined_flags, suppressed_flags)
    /\ pc' = "build_output"
    /\ UNCHANGED << algo_results, combined_flags, ring_clusters, suppressed_flags,
                    suppression_multipliers, scores, result, error,
                    df, G, detector >>

\* time.perf_counter() - start at line 127: what the run has taken so far,
\* in ten-thousandths of a second
ElapsedSeconds == {12, 13}

\* Step 6: build_output(scores, combined_flags, suppressed_flags, rings, G, df,
\* elapsed, settings)
BuildOutput ==
    /\ pc = "build_output"
    /\ \E elapsed \in ElapsedSeconds :
          result' = build_output(scores, combined_flags, suppressed_flags, rings,
                                 Accounts, elapsed)
    /\ pc' = "done"
    /\ UNCHANGED << algo_results, combined_flags, ring_clusters, suppressed_flags,
                    suppression_multipliers, scores, rings, error,
                    df, G, detector >>

\* Steps 5 and 6 of run_pipeline on their own: merge_rings and build_output
\* applied to what steps 2 and 3 hand them and to a score map over the
\* flagged accounts.
InitOutput ==
    /\ pc = "merge_rings"
    /\ \E cycles \in CycleChoices, chains \in ShellChoices, windows \in SmurfChoices :
          algo_results = << CycleResultOf(cycles), SmurfResultOf(windows),
                            ShellResultOf(chains), VelocityResultOf >>
    /\ combined_flags = CombineFlags(algo_results, Len(algo_results))
    /\ ring_clusters = CollectRingClusters(algo_results, Len(algo_results))
    /\ \E rules \in RuleOutcomes(combined_flags) :
          LET sup == apply_suppression(combined_flags, rules.payroll, rules.merchant)
          IN  /\ suppressed_flags = sup.suppressed_flags
              /\ suppression_multipliers = sup.suppression_multipliers
    /\ scores \in ScoreMapsOver(DOMAIN combined_flags)
    /\ rings = << >>
    /\ result = NoResult
    /\ error = "none"
    /\ df = << >>
    /\ G = NoGraph
    /\ detector = NoDetector

NextOutput == MergeRings \/ BuildOutput

SpecOutput == InitOutput /\ [][NextOutput]_vars

\* Step 4 of run_pipeline: compute_scores called with five positional
\* arguments.  An exception leaves run_pipeline; steps 5 and 6 follow a
\* normal return.
ComputeScores ==
    /\ pc = "compute_scores"
    /\ LET call == CallComputeScores(
                      << PyScores(algo_results[1].account_scores),
                         PyScores(algo_results[2].account_scores),
                         PyScores(algo_results[3].account_scores),
                         PyScores(suppression_multipliers),
                         PyScores(algo_results[4].account_scores) >>,
                      EmptyDict)
       IN  IF call.exc = "none"
           THEN /\ scores' = call.value
                /\ pc' = "merge_rings"
                /\ error' = error
           ELSE /\ scores' = scores
                /\ pc' = "raised"
                /\ error' = call.exc
    /\ UNCHANGED << algo_results, combined_flags, ring_clusters, suppressed_flags,
                    suppression_multipliers, rings, result,
                    df, G, detector >>

\* run_pipeline from the detectors' results on.  Steps 5 and 6 are the
\* actions MergeRings and BuildOutput of SpecOutput.
NextPipeline == RunAlgorithms \/ ApplySuppression \/ ComputeScores

SpecPipeline == InitDetected /\ [][NextPipeline]_vars

\* compute_scores on its own, in the state run_pipeline calls it in
InitScoring ==
    /\ pc = "compute_scores"
    /\ \E cycles \in CycleChoices, chains \in ShellChoices, windows \in SmurfChoices :
          algo_results = << CycleResultOf(cycles), SmurfResultOf(windows),
                            ShellResultOf(chains), VelocityResultOf >>
    /\ combined_flags = CombineFlags(algo_results, Len(algo_results))
    /\ ring_clusters = CollectRingClusters(algo_results, Len(algo_results))
    /\ \E rules \in RuleOutcomes(combined_flags) :
          LET sup == apply_suppression(combined_flags, rules.payroll, rules.merchant)
          IN  /\ suppressed_flags = sup.suppressed_flags
              /\ suppression_multipliers = sup.suppression_multipliers
    /\ scores = EmptyDict
    /\ rings = << >>
    /\ result = NoResult
    /\ error = "none"
    /\ df = << >>
    /\ G = NoGraph
    /\ detector = NoDetector

\* the call of the unit tests: the category maps by keyword
ComputeScoresByKeyword ==
    /\ pc = "compute_scores"
    /\ LET call == CallComputeScores(
                      << >>,
                      [k \in {"cycle_scores", "smurfing_scores", "shell_scores",
                              "suppression_multipliers"} |->
                          CASE k = "cycle_scores" ->
                                  PyScores(algo_results[1].account_scores)
                            [] k = "smurfing_scores" ->
                                  PyScores(algo_results[2].account_scores)
                            [] k = "shell_scores" ->
                                  PyScores(algo_results[3].account_scores)
                            [] k = "suppression_multipliers" ->
                                  PyScores(suppression_multipliers)])
       IN  /\ scores' = call.value
           /\ error' = call.exc
    /\ pc' = "scored"
    /\ UNCHANGED << algo_results, combined_flags, ring_clusters, suppressed_flags,
                    suppression_multipliers, rings, result,
                    df, G, detector >>

\* the call of run_pipeline, its outcome kept instead of propagated
ComputeScoresPositional ==
    /\ pc = "compute_scores"
    /\ LET call == CallComputeScores(
                      << PyScores(algo_results[1].account_scores),
                         PyScores(algo_results[2].account_scores),
                         PyScores(algo_results[3].account_scores),
                         PyScores(suppression_multipliers),
                         PyScores(algo_results[4].account_scores) >>,
                      EmptyDict)
       IN  /\ scores' = call.value
           /\ error' = call.exc
    /\ pc' = "scored"
    /\ UNCHANGED << algo_results, combined_flags, ring_clusters, suppressed_flags,
                    suppression_multipliers, rings, result,
                    df, G, detector >>

\* the call the signature describes: the label maps, the graph, the settings
ComputeScoresOnFlags ==
    /\ pc = "compute_scores"
    /\ LET call == CallComputeScores(
                      << PyFlags(combined_flags), PyFlags(suppressed_flags),
                         PyObject, PyObject >>,
                      EmptyDict)
       IN  /\ scores' = call.value
           /\ error' = call.exc
    /\ pc' = "scored_flags"
    /\ UNCHANGED << algo_results, combined_flags, ring_clusters, suppressed_flags,
                    suppression_multipliers, rings, result,
                    df, G, detector >>

NextScoring == ComputeScoresPositional \/ ComputeScoresByKeyword \/ ComputeScoresOnFlags

SpecScoring == InitScoring /\ [][NextScoring]_vars

\* ------------------------------------------------ the cycle detector's run
\* Transaction tables for the detector: one row per ordered pair on the
\* union of at most MaxCircuits circuits over NumNodes accounts -- a pair
\* of neighbours there and back, three consecutive accounts round in either
\* direction, or four consecutive accounts round.  Amounts are all 1000,
\* or 1000 on the pairs (u, u + 1) and 1 elsewhere (no cycle volume then
\* equals the volume threshold, where the float product could round either
\* way); the hour of a row depends on its pair.
Nodes == 1..NumNodes
PairsOf(circuit) ==
    {<< circuit[i], circuit[(i % Len(circuit)) + 1] >> : i \in 1..Len(circuit)}
Circuits ==
    {<< a, a + 1 >> : a \in 1..(NumNodes - 1)}
    \cup {<< a, a + 1, a + 2 >> : a \in 1..(NumNodes - 2)}
    \cup {<< a, a + 2, a + 1 >> : a \in 1..(NumNodes - 2)}
    \cup {<< a, a + 1, a + 2, a + 3 >> : a \in 1..(NumNodes - 3)}
RowHour(e) == 50 * (e[1] - 1) + 7 * e[2] * e[2]
RowAmount(e, skewed) ==
    IF skewed /\ e[2] # (e[1] % NumNodes) + 1 THEN 1 ELSE 1000
PairLess(e, f) == e[1] < f[1] \/ (e[1] = f[1] /\ e[2] < f[2])
TableOf(pairs, skewed) ==
    LET ordered == SortedSeq(pairs, PairLess)
    IN  [i \in 1..Len(ordered) |->
            [sender_id   |-> ordered[i][1],
             receiver_id |-> ordered[i][2],
             amount      |-> RowAmount(ordered[i], skewed),
             timestamp   |-> RowHour(ordered[i])]]
Tables ==
    {TableOf(UNION {PairsOf(c) : c \in chosen}, skewed) :
        chosen \in SubsetsUpTo(Circuits, MaxCircuits) \ {{}},
        skewed \in BOOLEAN}

InitCycle ==
    /\ pc = "cycle_run"
    /\ df \in Tables
    /\ G = build_graph(df)
    /\ detector = NoDetector
    /\ algo_results = << >>
    /\ combined_flags = EmptyDict
    /\ ring_clusters = << >>
    /\ suppressed_flags = EmptyDict
    /\ suppression_multipliers = EmptyDict
    /\ scores = EmptyDict
    /\ rings = << >>
    /\ result = NoResult
    /\ error = "none"

\* `if cycle_key in seen_cycles` without the test
NeverSeen(cycle_key, seen_cycles) == FALSE

\* `if cycle_key in seen_cycles: continue`
AlreadySeen(cycle_key, seen_cycles) == cycle_key \in seen_cycles

\* length and volume filters of the enumeration loop
PassesFilters(cycle, graph, median2) ==
    /\ ~(Len(cycle) < min_cycle_length \/ Len(cycle) > max_cycle_length)
    /\ \A i \in 1..Len(cycle) :
          << cycle[i], cycle[(i % Len(cycle)) + 1] >> \in DOMAIN graph.edges
    \* volume < threshold_pct * median_amount * length
    /\ ~(2 * cycle_volume_threshold_div * CycleVolume(cycle, graph)
            < median2 * Len(cycle))

\* run, up to the SCC pre-filter and the early return; median_amount and
\* edge_ts are computed once, before the loop
CycleRun ==
    /\ pc = "cycle_run"
    /\ LET qualifying_sccs ==
              {scc \in strongly_connected_components(G) :
                  min_cycle_length <= Cardinality(scc)
                  /\ Cardinality(scc) <= detector.caps.max_scc_size}
       IN  IF qualifying_sccs = {}
           THEN /\ algo_results' = << AlgorithmResult >>
                /\ detector' = detector
                /\ pc' = "cycle_returned"
           ELSE /\ detector' = [NoDetector EXCEPT !.median2 = Median2(df),
                                                  !.edge_ts = EdgeTimestamps(df),
                                                  !.caps = detector.caps,
                                                  !.sccs = qualifying_sccs]
                /\ algo_results' = algo_results
                /\ pc' = "cycle_next_scc"
    /\ UNCHANGED << combined_flags, ring_clusters, suppressed_flags,
                    suppression_multipliers, scores, rings, result, error, df, G >>

\* `for scc in qualifying_sccs`: the next SCC, in any order
CycleNextScc ==
    /\ pc = "cycle_next_scc"
    /\ \E scc \in detector.sccs :
          detector' = [detector EXCEPT !.sccs = @ \ {scc},
                                       !.pending = simple_cycles(scc, G),
                                       !.considered = 0,
                                       !.cycles_in_scc = 0]
    /\ pc' = "cycle_enumerate"
    /\ UNCHANGED << algo_results, combined_flags, ring_clusters, suppressed_flags,
                    suppression_multipliers, scores, rings, result, error, df, G >>

\* one pass of `for cycle in nx.simple_cycles(scc_subgraph)`: the generator
\* yields any circuit not yet yielded, from any of its nodes
CycleStep ==
    /\ pc = "cycle_enumerate"
    /\ \E canonical \in detector.pending :
       \E k \in 0..(Len(canonical) - 1) :
          LET cycle == Rotate(canonical, k)
              median2 == detector.median2
              volume == CycleVolume(cycle, G)
              cycle_key == Range(cycle)
          IN  IF detector.cycles_in_scc >= detector.caps.max_cycles_per_scc
              THEN /\ detector' = [detector EXCEPT !.pending = {}]
                   /\ pc' = "cycle_next_scc"
              ELSE /\ pc' = pc
                   /\ IF ~PassesFilters(cycle, G, median2)
                         \/ AlreadySeen(cycle_key, detector.seen_cycles)
                      THEN detector' = [detector EXCEPT !.pending = @ \ {canonical},
                                                        !.considered = @ + 1]
                      ELSE detector' =
                             [detector EXCEPT
                                !.pending = @ \ {canonical},
                                !.considered = @ + 1,
                                !.seen_cycles = @ \cup {cycle_key},
                                !.cycles_in_scc = @ + 1,
                                !.result = RecordCycle(
                                              @, cycle,
                                              _score_cycle(cycle, volume,
                                                           detector.edge_ts, median2))]
    /\ UNCHANGED << algo_results, combined_flags, ring_clusters, suppressed_flags,
                    suppression_multipliers, scores, rings, result, error, df, G >>

\* the generator is exhausted
CycleSccDone ==
    /\ pc = "cycle_enumerate"
    /\ detector.pending = {}
    /\ pc' = "cycle_next_scc"
    /\ UNCHANGED << algo_results, combined_flags, ring_clusters, suppressed_flags,
                    suppression_multipliers, scores, rings, result, error, df, G,
                    detector >>

\* `return result` after the last SCC
CycleReturn ==
    /\ pc = "cycle_next_scc"
    /\ detector.sccs = {}
    /\ algo_results' = << detector.result >>
    /\ pc' = "cycle_returned"
    /\ UNCHANGED << combined_flags, ring_clusters, suppressed_flags,
                    suppression_multipliers, scores, rings, result, error, df, G,
                    detector >>

NextCycle == CycleRun \/ CycleNextScc \/ CycleStep \/ CycleSccDone \/ CycleReturn

SpecCycle == InitCycle /\ [][NextCycle]_vars

\* ---------------------------------------------- the smurfing detector's run
smurfing_window_hours == 72

\* floor of the square root, by Newton's iteration
RECURSIVE ISqrtFrom(_, _)
ISqrtFrom(n, x) ==
    LET y == (x + n \div x) \div 2
    IN  IF y >= x THEN x ELSE ISqrtFrom(n, y)
ISqrt(n) == IF n = 0 THEN 0 ELSE ISqrtFrom(n, n)

\* df.sort_values("timestamp"): sort_values is not a stable sort unless asked
\* to be, so rows of equal timestamp come in table order or in reverse
SortValuesByTimestamp(table, reversed) ==
    LET before(i, j) ==
            \/ table[i].timestamp < table[j].timestamp
            \/ (table[i].timestamp = table[j].timestamp
                /\ (IF reversed THEN j < i ELSE i < j))
        perm == [k \in 1..Len(table) |->
                    CHOOSE i \in 1..Len(table) :
                        Cardinality({j \in 1..Len(table) : before(j, i)}) = k - 1]
    IN  [k \in 1..Len(table) |-> table[perm[k]]]

\* groupby(column, sort=False): the keys in order of first appearance
GroupKeys(sorted, column) ==
    LET first(key) == CHOOSE i \in 1..Len(sorted) :
                          /\ sorted[i][column] = key
                          /\ \A j \in 1..(i - 1) : sorted[j][column] # key
        keys == {sorted[i][column] : i \in 1..Len(sorted)}
    IN  [k \in 1..Cardinality(keys) |->
            CHOOSE key \in keys :
                Cardinality({other \in keys : first(other) < first(key)}) = k - 1]

\* the rows of one group, in the order of the sorted table
GroupRows(sorted, column, key) ==
    LET idx == {i \in 1..Len(sorted) : sorted[i][column] = key}
    IN  [k \in 1..Cardinality(idx) |->
            sorted[CHOOSE i \in idx : Cardinality({j \in idx : j < i}) = k - 1]]

\* the right edge of a window that leaves out the rows at value v
searchsortedOpenEnd(ts, v) == Cardinality({j \in 1..Len(ts) : ts[j] < v})

\* np.searchsorted(ts, v, side="right"): the rows up to and including value v
searchsorted(ts, v) == Cardinality({j \in 1..Len(ts) : ts[j] <= v})

\* _score_smurfing, in thousandths; the four terms are computed in
\* millionths.  25 * raw = 8.75 f_degree + 7.5 f_speed + 5 f_volume
\* + 3.75 f_uniformity, with f_volume = L / 4000 for L = 1000 * log10(total /
\* median) capped to 0..4000, and f_uniformity = max(0, 1 - 2 * std / mean).
_score_smurfing(unique_count, actual_window, max_window, window_amounts, median2, min_degree) ==
    LET n == Len(window_amounts)
        degree_term == Min(8750000, (8750000 * (unique_count - min_degree))
                                       \div Max(1, 40 - min_degree))
        speed_term == IF max_window > 0
                      THEN 7500000 - (7500000 * Min(max_window, actual_window))
                                        \div max_window
                      ELSE 7500000
        total_volume == SumOver(window_amounts, 1..n)
        L == IF median2 > 0
             THEN (IF 2 * total_volume <= median2 THEN 0
                   ELSE Min(4000, Log10Milli(2 * total_volume, median2)))
             ELSE 0
        volume_term == 1250 * L
        squares == SumOver([i \in 1..n |-> window_amounts[i] * window_amounts[i]], 1..n)
        \* 1000 * std / mean = sqrt(10^6 * (n * squares - total^2)) / total
        cv_milli == (10 * ISqrt(10000 * (n * squares - total_volume * total_volume)))
                       \div total_volume
        uniformity_term == IF n > 1 /\ total_volume > 0
                           THEN 3750 * Max(0, 1000 - 2 * cv_milli)
                           ELSE 0
    IN  RoundTo(degree_term + speed_term + volume_term + uniformity_term, 1000, 10)

\* the loop `for i in range(len(ts))` of one group: the first anchor whose
\* window holds min_degree distinct counterparties, or 0
WindowRows(ts, i, window) == i..searchsorted(ts, ts[i] + window)
FirstAnchor(group, other, window, min_degree) ==
    LET ts == [k \in 1..Len(group) |-> group[k].timestamp]
        unique(i) == {group[k][other] : k \in WindowRows(ts, i, window)}
        hits == {i \in 1..Len(group) : Cardinality(unique(i)) >= min_degree}
    IN  IF hits = {} THEN 0 ELSE CHOOSE i \in hits : \A j \in hits : i <= j

\* one pass of `for receiver, group in by_receiver` (or of the fan-out loop)
DetectGroup(res, central, group, other, pattern, window, min_degree, median2) ==
    LET ts == [k \in 1..Len(group) |-> group[k].timestamp]
        i == FirstAnchor(group, other, window, min_degree)
        rows == WindowRows(ts, i, window)
        right == searchsorted(ts, ts[i] + window)
        unique == {group[k][other] : k \in rows}
        amounts == [k \in 1..Cardinality(rows) |-> group[i + k - 1].amount]
    IN  IF Len(group) < min_degree \/ i = 0 THEN res
        ELSE RecordSmurf(res, central, pattern, unique,
                         _score_smurfing(Cardinality(unique),
                                         ts[Min(right, Len(ts))] - ts[i],
                                         window, amounts, median2, min_degree))

RECURSIVE DetectGroups(_, _, _, _, _, _, _, _, _)
DetectGroups(res, sorted, keys, column, other, pattern, window, min_degree, median2) ==
    IF keys = << >> THEN res
    ELSE DetectGroups(
            DetectGroup(res, Head(keys), GroupRows(sorted, column, Head(keys)),
                        other, pattern, window, min_degree, median2),
            sorted, Tail(keys), column, other, pattern, window, min_degree, median2)

_detect_fan_in(by_receiver, res, window, min_degree, median_amount2) ==
    DetectGroups(res, by_receiver, GroupKeys(by_receiver, "receiver_id"),
                 "receiver_id", "sender_id", "smurfing_fan_in",
                 window, min_degree, median_amount2)

_detect_fan_out(by_sender, res, window, min_degree, median_amount2) ==
    DetectGroups(res, by_sender, GroupKeys(by_sender, "sender_id"),
                 "sender_id", "receiver_id", "smurfing_fan_out",
                 window, min_degree, median_amount2)

\* Transaction tables for the detector: at most SmurfRows rows between
\* account 1 and its SmurfParties counterparties.  Payments to account 1 are
\* made at hour 0, at hour 72 (the last hour a window opened at hour 0
\* includes) or at hour 73; payments by account 1 at hour 0 or hour 73.
\* smurfing_min_degree is a setting of the run: 2 or 3.
SmurfParties == 3
SmurfRows == 3
Counterparties == 2..(SmurfParties + 1)
SmurfAmount(a, hour) == 20 + 10 * (a % 3) + (hour % 3)
SmurfRowSet ==
    {[sender_id |-> a, receiver_id |-> 1, amount |-> SmurfAmount(a, hour),
      timestamp |-> hour] : a \in Counterparties, hour \in {0, 72, 73}}
    \cup
    {[sender_id |-> 1, receiver_id |-> a, amount |-> SmurfAmount(a, hour),
      timestamp |-> hour] : a \in Counterparties, hour \in {0, 73}}
RowCode(r) == 1000 * r.sender_id + 100 * r.receiver_id + r.timestamp
SmurfTables ==
    {SortedSeq(rows, LAMBDA r, s : RowCode(r) < RowCode(s)) :
        rows \in SubsetsUpTo(SmurfRowSet, SmurfRows) \ {{}}}
MinDegrees == {2, 3}

NoSmurfRun == [min_degree |-> 0, median_amount2 |-> 0, by_receiver |-> << >>,
               by_sender |-> << >>, result |-> AlgorithmResult]

InitSmurf ==
    /\ pc = "smurf_run"
    /\ df \in SmurfTables
    /\ G = build_graph(df)
    /\ \E m \in MinDegrees : detector = [NoSmurfRun EXCEPT !.min_degree = m]
    /\ algo_results = << >>
    /\ combined_flags = EmptyDict
    /\ ring_clusters = << >>
    /\ suppressed_flags = EmptyDict
    /\ suppression_multipliers = EmptyDict
    /\ scores = EmptyDict
    /\ rings = << >>
    /\ result = NoResult
    /\ error = "none"

\* run, up to the two groupings
SmurfRun ==
    /\ pc = "smurf_run"
    /\ \E reversed \in BOOLEAN :
          detector' = [detector EXCEPT
                          !.median_amount2 = Median2(df),
                          !.by_receiver = SortValuesByTimestamp(df, reversed),
                          !.by_sender = SortValuesByTimestamp(df, reversed),
                          !.result = AlgorithmResult]
    /\ pc' = "smurf_fan_in"
    /\ UNCHANGED << algo_results, combined_flags, ring_clusters, suppressed_flags,
                    suppression_multipliers, scores, rings, result, error, df, G >>

SmurfFanIn ==
    /\ pc = "smurf_fan_in"
    /\ detector' = [detector EXCEPT
                       !.result = _detect_fan_in(detector.by_receiver, @,
                                                 smurfing_window_hours,
                                                 detector.min_degree,
                                                 detector.median_amount2)]
    /\ pc' = "smurf_fan_out"
    /\ UNCHANGED << algo_results, combined_flags, ring_clusters, suppressed_flags,
                    suppression_multipliers, scores, rings, result, error, df, G >>

SmurfFanOut ==
    /\ pc = "smurf_fan_out"
    /\ detector' = [detector EXCEPT
                       !.result = _detect_fan_out(detector.by_sender, @,
                                                  smurfing_window_hours,
                                                  detector.min_degree,
                                                  detector.median_amount2)]
    /\ pc' = "smurf_return"
    /\ UNCHANGED << algo_results, combined_flags, ring_clusters, suppressed_flags,
                    suppression_multipliers, scores, rings, result, error, df, G >>

SmurfReturn ==
    /\ pc = "smurf_return"
    /\ algo_results' = << detector.result >>
    /\ pc' = "smurf_returned"
    /\ UNCHANGED << combined_flags, ring_clusters, suppressed_flags,
                    suppression_multipliers, scores, rings, result, error, df, G,
                    detector >>

NextSmurf == SmurfRun \/ SmurfFanIn \/ SmurfFanOut \/ SmurfReturn

SpecSmurf == InitSmurf /\ [][NextSmurf]_vars

\* ------------------------------------------- the shell-chain detector's run
shell_max_total_transactions == 3
shell_chain_min_hops == 3
MAX_CHAINS == 10000
MAX_DEPTH == 10

\* is_shell[node]
is_shell(graph, node) ==
    graph.nodes[node].total_transactions <= shell_max_total_transactions

\* non_shell_nodes: G.nodes() lists the accounts in the order of
\* Index.union, which is sorted
non_shell_nodes(graph) ==
    SortedSeq({n \in DOMAIN graph.nodes : ~is_shell(graph, n)}, LAMBDA a, b : a < b)

\* G.successors(current): the receivers of current, in the order the edges
\* were added, which is the order of first appearance in the table
Successors(table, current) ==
    GroupKeys(SelectSeq(table, LAMBDA r : r.sender_id = current), "receiver_id")

\* `if new_depth >= min_hops` without the test
AnyDepth(new_depth, min_hops) == TRUE

\* `if new_depth >= min_hops`
DeepEnough(new_depth, min_hops) == new_depth >= min_hops

\* _score_chain, in thousandths; the four terms are computed in millionths.
\* 20 * raw = 8 f_depth + 6 f_volume + 4 f_isolation + 2 f_velocity
_score_chain(path, graph, edge_ts, median2, min_hops, max_txns) ==
    LET hops == Len(path) - 1
        depth_term == Min(8000000, (8000000 * (hops - min_hops))
                                      \div Max(1, 10 - min_hops))
        on_graph == {i \in 1..hops : << path[i], path[i + 1] >> \in DOMAIN graph.edges}
        chain_volume == SumOver([i \in on_graph |->
                                    graph.edges[<< path[i], path[i + 1] >>].weight],
                                on_graph)
        L == IF median2 > 0
             THEN (IF 2 * chain_volume <= median2 THEN 0
                   ELSE Min(4000, Log10Milli(2 * chain_volume, median2)))
             ELSE 0
        volume_term == 1500 * L
        shell_nodes == SubSeq(path, 2, Len(path) - 1)
        txns == SumOver([i \in 1..Len(shell_nodes) |->
                            graph.nodes[shell_nodes[i]].total_transactions],
                        1..Len(shell_nodes))
        \* 1 - (avg_txns - 1) / max(1, max_txns - 1), avg_txns = txns / len
        isolation_term ==
            IF shell_nodes # << >>
            THEN Max(0, 4000000 - (4000000 * (txns - Len(shell_nodes)))
                                     \div (Len(shell_nodes) * Max(1, max_txns - 1)))
            ELSE 4000000
        dated == {i \in 1..hops : << path[i], path[i + 1] >> \in DOMAIN edge_ts}
        all_ts == UNION {{edge_ts[<< path[i], path[i + 1] >>].ts_min,
                          edge_ts[<< path[i], path[i + 1] >>].ts_max} : i \in dated}
        span_hours == (CHOOSE t \in all_ts : \A u \in all_ts : u <= t)
                      - (CHOOSE t \in all_ts : \A u \in all_ts : t <= u)
        velocity_term == IF dated # {}
                         THEN 2000000 - (2000000 * Min(168, span_hours)) \div 168
                         ELSE 1000000
    IN  RoundTo(depth_term + volume_term + isolation_term + velocity_term, 1000, 10)

\* the body of `for neighbor in G.successors(current)`, neighbour by
\* neighbour; st holds the queue, seen_paths and the result
RECURSIVE VisitNeighbors(_, _, _, _, _)
VisitNeighbors(st, path, neighbors, graph, table) ==
    IF neighbors = << >> THEN st
    ELSE LET neighbor == Head(neighbors)
             new_path == Append(path, neighbor)
             new_depth == Len(path)
             intermediates == SubSeq(new_path, 2, Len(new_path) - 1)
             next ==
                IF neighbor \in Range(path) THEN st
                ELSE IF is_shell(graph, neighbor)
                THEN [st EXCEPT !.queue = Append(@, new_path)]
                ELSE IF /\ DeepEnough(new_depth, shell_chain_min_hops)
                        /\ \A i \in 1..Len(intermediates) : is_shell(graph, intermediates[i])
                        /\ new_path \notin st.seen_paths
                THEN [st EXCEPT
                        !.seen_paths = @ \cup {new_path},
                        !.result = RecordChain(
                                      @, new_path,
                                      _score_chain(new_path, graph, st.edge_ts,
                                                   st.median2,
                                                   shell_chain_min_hops,
                                                   shell_max_total_transactions))]
                ELSE st
         IN  VisitNeighbors(next, path, Tail(neighbors), graph, table)

\* the loop `while queue` of _bfs_from_source
RECURSIVE BfsLoop(_, _, _)
BfsLoop(st, graph, table) ==
    IF st.queue = << >> THEN st
    ELSE LET path == Head(st.queue)
             current == path[Len(path)]
             popped == [st EXCEPT !.queue = Tail(@)]
             depth == Len(path) - 1
         IN  IF depth >= MAX_DEPTH THEN BfsLoop(popped, graph, table)
             ELSE BfsLoop(VisitNeighbors(popped, path, Successors(table, current),
                                         graph, table),
                          graph, table)

_bfs_from_source(st, source, graph, table) ==
    BfsLoop([st EXCEPT !.queue = << << source >> >>], graph, table)

\* Transaction tables for the detector.  Accounts 1 and 2 are busy (four
\* payments from 1 to 2); accounts 3.. are the NumShells candidates for
\* shells.  A table has at most MaxShellEdges single payments among: 1 to a
\* candidate, a candidate to 2, a candidate to a later candidate, and
\* candidate 4 back to candidate 3.  The last candidate may be made busy by
\* three payments to one more account.  LongChains are the chains 1 -> 3 ->
\* ... -> 2 of MAX_DEPTH and MAX_DEPTH + 1 hops.
NumShells == 3
MaxShellEdges == 5
Shells == 3..(NumShells + 2)
ShellPairs ==
    {<< 1, s >> : s \in Shells}
    \cup {<< s, 2 >> : s \in Shells}
    \cup {e \in Shells \X Shells : e[1] < e[2]}
    \cup {<< 4, 3 >>}
ShellRow(e, k) ==
    [sender_id |-> e[1], receiver_id |-> e[2], amount |-> 100 * e[2] + k,
     timestamp |-> RowHour(e) + 24 * k]
HubRows == [k \in 1..4 |-> ShellRow(<< 1, 2 >>, k)]
BusyRows == [k \in 1..3 |-> ShellRow(<< NumShells + 2, NumShells + 3 >>, k)]
ChainRows(pairs) ==
    LET ordered == SortedSeq(pairs, PairLess)
    IN  [i \in 1..Len(ordered) |-> ShellRow(ordered[i], 0)]
LongChain(hops) ==
    {<< 1, 3 >>, << hops + 1, 2 >>} \cup {<< s, s + 1 >> : s \in 3..hops}
ShellTables ==
    {HubRows \o ChainRows(pairs) \o (IF busy THEN BusyRows ELSE << >>) :
        pairs \in SubsetsUpTo(ShellPairs, MaxShellEdges), busy \in BOOLEAN}
    \cup {HubRows \o ChainRows(LongChain(hops)) : hops \in {MAX_DEPTH, MAX_DEPTH + 1}}

\* max_chains holds the limit MAX_CHAINS of the run
NoShellRun == [median2 |-> 0, edge_ts |-> EmptyDict, sources |-> << >>,
               max_chains |-> MAX_CHAINS,
               queue |-> << >>, seen_paths |-> {}, result |-> AlgorithmResult]

InitShell ==
    /\ pc = "shell_run"
    /\ df \in ShellTables
    /\ G = build_graph(df)
    /\ detector = NoShellRun
    /\ algo_results = << >>
    /\ combined_flags = EmptyDict
    /\ ring_clusters = << >>
    /\ suppressed_flags = EmptyDict
    /\ suppression_multipliers = EmptyDict
    /\ scores = EmptyDict
    /\ rings = << >>
    /\ result = NoResult
    /\ error = "none"

\* run, up to the loop over the non-shell sources
ShellRun ==
    /\ pc = "shell_run"
    /\ detector' = [NoShellRun EXCEPT !.median2 = Median2(df),
                                      !.edge_ts = EdgeTimestamps(df),
                                      !.max_chains = detector.max_chains,
                                      !.sources = non_shell_nodes(G)]
    /\ pc' = "shell_sources"
    /\ UNCHANGED << algo_results, combined_flags, ring_clusters, suppressed_flags,
                    suppression_multipliers, scores, rings, result, error, df, G >>

\* one pass of `for source in non_shell_nodes`
ShellBfs ==
    /\ pc = "shell_sources"
    /\ detector.sources # << >>
    /\ IF Cardinality(detector.seen_paths) >= detector.max_chains
       THEN detector' = [detector EXCEPT !.sources = << >>]
       ELSE detector' = [_bfs_from_source(detector, Head(detector.sources), G, df)
                            EXCEPT !.sources = Tail(@)]
    /\ UNCHANGED << pc, algo_results, combined_flags, ring_clusters, suppressed_flags,
                    suppression_multipliers, scores, rings, result, error, df, G >>

ShellReturn ==
    /\ pc = "shell_sources"
    /\ detector.sources = << >>
    /\ algo_results' = << detector.result >>
    /\ pc' = "shell_returned"
    /\ UNCHANGED << combined_flags, ring_clusters, suppressed_flags,
                    suppression_multipliers, scores, rings, result, error, df, G,
                    detector >>

NextShell == ShellRun \/ ShellBfs \/ ShellReturn

SpecShell == InitShell /\ [][NextShell]_vars

\* ------------------------------------------------- _merchant_multiplier
\* int(min_in * 0.6) and int(min_in * 0.3): the float product truncated,
\* which is the floor of 6 * min_in / 10 and of 3 * min_in / 10
IntOfProduct(min_in, tenths) == (tenths * min_in) \div 10

\* _merchant_multiplier(account, G, settings), in tenths, on the account's
\* in_degree_count and out_degree_count
_merchant_multiplier(in_deg, out_deg, min_in) ==
    IF in_deg >= min_in * 2 /\ out_deg = 0 THEN 1
    ELSE IF in_deg >= min_in /\ out_deg = 0 THEN 2
    ELSE IF in_deg >= IntOfProduct(min_in, 6) /\ out_deg <= 3 THEN 5
    ELSE IF in_deg >= IntOfProduct(min_in, 3) THEN 8
    ELSE 10

\* Calls of _merchant_multiplier: every in-degree up to MaxInDeg, every
\* out-degree up to MaxOutDeg, merchant_min_in_degree from 1 to MaxMinIn.
MaxInDeg == 12
MaxOutDeg == 4
MaxMinIn == 6
NoMerchantCall == [in_deg |-> 0, out_deg |-> 0, min_in |-> 1, returned |-> 0]

InitMerchant ==
    /\ pc = "merchant_call"
    /\ \E i \in 0..MaxInDeg, o \in 0..MaxOutDeg, m \in 1..MaxMinIn :
          detector = [NoMerchantCall EXCEPT !.in_deg = i, !.out_deg = o, !.min_in = m]
    /\ df = << >>
    /\ G = NoGraph
    /\ algo_results = << >>
    /\ combined_flags = EmptyDict
    /\ ring_clusters = << >>
    /\ suppressed_flags = EmptyDict
    /\ suppression_multipliers = EmptyDict
    /\ scores = EmptyDict
    /\ rings = << >>
    /\ result = NoResult
    /\ error = "none"

MerchantMultiplier ==
    /\ pc = "merchant_call"
    /\ detector' = [detector EXCEPT
                       !.returned = _merchant_multiplier(detector.in_deg,
                                                         detector.out_deg,
                                                         detector.min_in)]
    /\ pc' = "merchant_returned"
    /\ UNCHANGED << algo_results, combined_flags, ring_clusters, suppressed_flags,
                    suppression_multipliers, scores, rings, result, error, df, G >>

NextMerchant == MerchantMultiplier

SpecMerchant == InitMerchant /\ [][NextMerchant]_vars

\* ------------------------------------- apply_suppression, called on its own
\* Calls of apply_suppression: NumFlagged flagged accounts, each with one of
\* the flag lists of SuppressionProfiles; for the accounts the rules are
\* applied to, the payroll and the merchant rule return any of their tiers.
NumFlagged == 2
SuppressionProfiles ==
    { << "cycle_length_3" >>,
      << "shell_source", "burst_activity" >>,
      << "smurfing_fan_in" >>,
      << "cycle_length_4", "smurfing_fan_out" >>,
      << "smurfing_fan_in", "smurfing_fan_out", "high_velocity" >> }

InitSuppression ==
    /\ pc = "suppression_call"
    /\ combined_flags \in [1..NumFlagged -> SuppressionProfiles]
    /\ detector \in RuleOutcomes(combined_flags)
    /\ df = << >>
    /\ G = NoGraph
    /\ algo_results = << >>
    /\ ring_clusters = << >>
    /\ suppressed_flags = EmptyDict
    /\ suppression_multipliers = EmptyDict
    /\ scores = EmptyDict
    /\ rings = << >>
    /\ result = NoResult
    /\ error = "none"

\* apply_suppression(combined_flags, G, df, settings); detector holds what
\* _payroll_multiplier and _merchant_multiplier return for each account
ApplySuppressionCall ==
    /\ pc = "suppression_call"
    /\ LET sup == apply_suppression(combined_flags, detector.payroll, detector.merchant)
       IN  /\ suppressed_flags' = sup.suppressed_flags
           /\ suppression_multipliers' = sup.suppression_multipliers
    /\ pc' = "suppression_returned"
    /\ UNCHANGED << algo_results, combined_flags, ring_clusters, scores, rings,
                    result, error, df, G, detector >>

NextSuppression == ApplySuppressionCall

SpecSuppression == InitSuppression /\ [][NextSuppression]_vars

\* ---------------------------------------------- the velocity detector's run
burst_window_hours == 1
burst_min_transactions == 5
daily_velocity_window_hours == 24
daily_velocity_min_transactions == 15
velocity_spike_ratio == 3
velocity_spike_window_hours == 168
dormancy_min_hours == 720
dormancy_activity_window_hours == 48
dormancy_activity_threshold == 5

\* group["timestamp"].values
TimestampsOf(group) == [k \in 1..Len(group) |-> group[k].timestamp]

\* np.searchsorted(ts, v, side="left"): the rows before value v
searchsorted_left(ts, v) == Cardinality({j \in 1..Len(ts) : ts[j] < v})

\* _score_window without the cap min(1.0, ...) on f_count
_score_window_uncapped(count, span, window, min_txns) ==
    LET count_term == (9000000 * (count - min_txns)) \div Max(1, min_txns)
        speed_term == 6000000 - (6000000 * Min(Max(1, window), span)) \div Max(1, window)
    IN  RoundTo(count_term + speed_term, 1000, 10)

\* _score_window, in thousandths (the terms in millionths):
\* 15 * (0.6 f_count + 0.4 f_speed) = 9 f_count + 6 f_speed
_score_window(count, span, window, min_txns) ==
    LET count_term == Min(9000000, (9000000 * (count - min_txns)) \div Max(1, min_txns))
        speed_term == 6000000 - (6000000 * Min(Max(1, window), span)) \div Max(1, window)
    IN  RoundTo(count_term + speed_term, 1000, 10)

\* the loop `for i in range(len(ts))` of _detect_burst and
\* _detect_high_velocity: the first window of at least min_txns rows, or 0
FirstWindow(ts, window, min_txns) ==
    LET hits == {i \in 1..Len(ts) :
                    searchsorted(ts, ts[i] + window) - (i - 1) >= min_txns}
    IN  IF hits = {} THEN 0 ELSE CHOOSE i \in hits : \A j \in hits : i <= j

\* one pass of `for sender, group in by_sender` of the two window detectors
DetectWindow(res, sender, ts, pattern, window, min_txns) ==
    LET i == FirstWindow(ts, window, min_txns)
        right == searchsorted(ts, ts[i] + window)
        count == right - (i - 1)
    IN  IF Len(ts) < min_txns \/ i = 0 THEN res
        ELSE RecordVelocity(res, sender, pattern,
                            _score_window(count, ts[right] - ts[i], window, min_txns))

RECURSIVE DetectWindows(_, _, _, _, _, _)
DetectWindows(res, by_sender, keys, pattern, window, min_txns) ==
    IF keys = << >> THEN res
    ELSE DetectWindows(
            DetectWindow(res, Head(keys),
                         TimestampsOf(GroupRows(by_sender, "sender_id", Head(keys))),
                         pattern, window, min_txns),
            by_sender, Tail(keys), pattern, window, min_txns)

_detect_burst(by_sender, res) ==
    DetectWindows(res, by_sender, GroupKeys(by_sender, "sender_id"),
                  "burst_activity", burst_window_hours, burst_min_transactions)

_detect_high_velocity(by_sender, res) ==
    DetectWindows(res, by_sender, GroupKeys(by_sender, "sender_id"),
                  "high_velocity", daily_velocity_window_hours,
                  daily_velocity_min_transactions)

\* one pass of the loop of _detect_velocity_spike.  ratio >= spike_ratio is
\* current_count >= spike_ratio * prev_count, and f_ratio is
\* (current_count - spike_ratio * prev_count) / (spike_ratio * prev_count)
DetectSpike(res, sender, ts) ==
    LET latest == ts[Len(ts)]
        current_start == latest - velocity_spike_window_hours
        current_count == Len(ts) - searchsorted_left(ts, current_start)
        prev_end == current_start
        prev_start == prev_end - velocity_spike_window_hours
        prev_count == searchsorted_left(ts, prev_end) - searchsorted_left(ts, prev_start)
        excess == current_count - velocity_spike_ratio * prev_count
    IN  IF Len(ts) < 2 THEN res
        ELSE IF prev_count = 0 THEN res
        ELSE IF excess >= 0
        THEN RecordVelocity(res, sender, "velocity_spike",
                            RoundTo(Min(15000000,
                                        (15000000 * excess)
                                           \div (velocity_spike_ratio * prev_count)),
                                    1000, 10))
        ELSE res

RECURSIVE DetectSpikes(_, _, _)
DetectSpikes(res, by_sender, keys) ==
    IF keys = << >> THEN res
    ELSE DetectSpikes(
            DetectSpike(res, Head(keys),
                        TimestampsOf(GroupRows(by_sender, "sender_id", Head(keys)))),
            by_sender, Tail(keys))

_detect_velocity_spike(by_sender, res) ==
    DetectSpikes(res, by_sender, GroupKeys(by_sender, "sender_id"))

\* _build_all_account_ts: per account, the sorted timestamps of the rows it
\* sent followed by the rows it received
_build_all_account_ts(df_sorted) ==
    LET accounts == {df_sorted[i].sender_id : i \in 1..Len(df_sorted)}
                    \cup {df_sorted[i].receiver_id : i \in 1..Len(df_sorted)}
        parts(acc) ==
            TimestampsOf(SelectSeq(df_sorted, LAMBDA r : r.sender_id = acc))
            \o TimestampsOf(SelectSeq(df_sorted, LAMBDA r : r.receiver_id = acc))
    IN  [acc \in accounts |-> SortedList(parts(acc), LAMBDA a, b : a < b)]

\* one pass of the loop of _detect_dormancy_break; the score in thousandths
\* (the terms in ten-thousandths): 15 * raw = 7.5 f_dormancy + 7.5 f_burst,
\* f_dormancy = gap_hours / 2160
DetectDormancy(res, acc, ts) ==
    LET gaps == [i \in 1..(Len(ts) - 1) |-> ts[i + 1] - ts[i]]
        max_gap_idx == CHOOSE i \in 1..Len(gaps) :
                          /\ \A j \in 1..Len(gaps) : gaps[j] <= gaps[i]
                          /\ \A j \in 1..(i - 1) : gaps[j] < gaps[i]
        max_gap == gaps[max_gap_idx]
        resume_ts == ts[max_gap_idx + 1]
        post_gap_count == searchsorted(ts, resume_ts + dormancy_activity_window_hours)
                          - max_gap_idx
        dormancy_term == Min(75000, (75000 * max_gap) \div 2160)
        burst_term == Min(75000, (75000 * (post_gap_count - dormancy_activity_threshold))
                                    \div Max(1, dormancy_activity_threshold))
    IN  IF Len(ts) < 2 THEN res
        ELSE IF max_gap < dormancy_min_hours THEN res
        ELSE IF post_gap_count >= dormancy_activity_threshold
        THEN RecordVelocity(res, acc, "dormancy_break",
                            RoundTo(dormancy_term + burst_term, 10, 10))
        ELSE res

RECURSIVE DetectDormancies(_, _, _)
DetectDormancies(res, all_by_account, accounts) ==
    IF accounts = {} THEN res
    ELSE LET acc == CHOOSE a \in accounts : \A b \in accounts : a <= b
         IN  DetectDormancies(DetectDormancy(res, acc, all_by_account[acc]),
                              all_by_account, accounts \ {acc})

_detect_dormancy_break(all_by_account, res) ==
    DetectDormancies(res, all_by_account, DOMAIN all_by_account)

\* Transaction tables for the detector: payments from account 1 to account
\* 2 at hours 0, 168, 336, 337 and 1100, none, one, 5, 10 or 15 of them at
\* each hour and at most MaxVelocityRows in all; the payments of hour 1100
\* may run from account 2 to account 1 instead.
MaxVelocityRows == 16
VelocityHours == << 1100, 337, 336, 168, 0 >>
VelocityCounts == {0, 1, 5, 10, 15}
VelocityRow(hour, incoming) ==
    IF incoming /\ hour = VelocityHours[1]
    THEN [sender_id |-> 2, receiver_id |-> 1, amount |-> 100, timestamp |-> hour]
    ELSE [sender_id |-> 1, receiver_id |-> 2, amount |-> 100, timestamp |-> hour]
RECURSIVE VelocityRows(_, _, _)
VelocityRows(counts, slot, incoming) ==
    IF slot > Len(VelocityHours) THEN << >>
    ELSE [k \in 1..counts[slot] |-> VelocityRow(VelocityHours[slot], incoming)]
         \o VelocityRows(counts, slot + 1, incoming)
VelocityTables ==
    {VelocityRows(counts, 1, incoming) :
        counts \in {c \in [1..Len(VelocityHours) -> VelocityCounts] :
                       /\ SumOver(c, DOMAIN c) >= 1
                       /\ SumOver(c, DOMAIN c) <= MaxVelocityRows},
        incoming \in BOOLEAN}

NoVelocityRun == [by_sender |-> << >>, all_by_account |-> EmptyDict,
                  result |-> AlgorithmResult]

InitVelocity ==
    /\ pc = "velocity_run"
    /\ df \in VelocityTables
    /\ G = build_graph(df)
    /\ detector = NoVelocityRun
    /\ algo_results = << >>
    /\ combined_flags = EmptyDict
    /\ ring_clusters = << >>
    /\ suppressed_flags = EmptyDict
    /\ suppression_multipliers = EmptyDict
    /\ scores = EmptyDict
    /\ rings = << >>
    /\ result = NoResult
    /\ error = "none"

\* run, up to the four detectors
VelocityRun ==
    /\ pc = "velocity_run"
    /\ \E reversed \in BOOLEAN :
          LET df_sorted == SortValuesByTimestamp(df, reversed)
          IN  detector' = [NoVelocityRun EXCEPT
                              !.by_sender = df_sorted,
                              !.all_by_account = _build_all_account_ts(df_sorted)]
    /\ pc' = "velocity_burst"
    /\ UNCHANGED << algo_results, combined_flags, ring_clusters, suppressed_flags,
                    suppression_multipliers, scores, rings, result, error, df, G >>

DetectBurst ==
    /\ pc = "velocity_burst"
    /\ detector' = [detector EXCEPT !.result = _detect_burst(detector.by_sender, @)]
    /\ pc' = "velocity_high"
    /\ UNCHANGED << algo_results, combined_flags, ring_clusters, suppressed_flags,
                    suppression_multipliers, scores, rings, result, error, df, G >>

DetectHighVelocity ==
    /\ pc = "velocity_high"
    /\ detector' = [detector EXCEPT
                       !.result = _detect_high_velocity(detector.by_sender, @)]
    /\ pc' = "velocity_spike"
    /\ UNCHANGED << algo_results, combined_flags, ring_clusters, suppressed_flags,
                    suppression_multipliers, scores, rings, result, error, df, G >>

DetectVelocitySpike ==
    /\ pc = "velocity_spike"
    /\ detector' = [detector EXCEPT
                       !.result = _detect_velocity_spike(detector.by_sender, @)]
    /\ pc' = "velocity_dormancy"
    /\ UNCHANGED << algo_results, combined_flags, ring_clusters, suppressed_flags,
                    suppression_multipliers, scores, rings, result, error, df, G >>

DetectDormancyBreak ==
    /\ pc = "velocity_dormancy"
    /\ detector' = [detector EXCEPT
                       !.result = _detect_dormancy_break(detector.all_by_account, @)]
    /\ pc' = "velocity_return"
    /\ UNCHANGED << algo_results, combined_flags, ring_clusters, suppressed_flags,
                    suppression_multipliers, scores, rings, result, error, df, G >>

VelocityReturn ==
    /\ pc = "velocity_return"
    /\ algo_results' = << detector.result >>
    /\ pc' = "velocity_returned"
    /\ UNCHANGED << combined_flags, ring_clusters, suppressed_flags,
                    suppression_multipliers, scores, rings, result, error, df, G,
                    detector >>

NextVelocity ==
    \/ VelocityRun
    \/ DetectBurst
    \/ DetectHighVelocity
    \/ DetectVelocitySpike
    \/ DetectDormancyBreak
    \/ VelocityReturn

SpecVelocity == InitVelocity /\ [][NextVelocity]_vars

\* ------------------------------------- the four detectors and compute_scores
\* Every detector run on its tables (the cycle detector on the tables of one
\* circuit), and compute_scores on detector results.
InitCycleOfOne ==
    /\ InitCycle
    /\ \E c \in Circuits, skewed \in BOOLEAN : df = TableOf(PairsOf(c), skewed)

InitScores == InitCycleOfOne \/ InitSmurf \/ InitShell \/ InitVelocity \/ InitScoring

NextScores == NextCycle \/ NextSmurf \/ NextShell \/ NextVelocity \/ NextScoring

SpecScores == InitScores /\ [][NextScores]_vars

\* ----------------------------------------------- run_pipeline, called twice
\* Steps 5 and 6 run twice from the same scores, flags and clusters, as on
\* two calls of run_pipeline with one table and one Settings; detector keeps
\* the first call's ForensicResult.  Each call has its own set iteration
\* order and its own elapsed time.
NoFirstRun == [first |-> NoResult, calls |-> 0]

InitTwice ==
    /\ pc = "merge_rings"
    /\ \E cycles \in CycleChoices, chains \in ShellChoices, windows \in SmurfChoices :
          algo_results = << CycleResultOf(cycles), SmurfResultOf(windows),
                            ShellResultOf(chains), VelocityResultOf >>
    /\ combined_flags = CombineFlags(algo_results, Len(algo_results))
    /\ ring_clusters = CollectRingClusters(algo_results, Len(algo_results))
    /\ suppressed_flags = EmptyDict
    /\ suppression_multipliers = EmptyDict
    /\ scores \in ScoreMapsOver(DOMAIN combined_flags)
    /\ rings = << >>
    /\ result = NoResult
    /\ error = "none"
    /\ df = << >>
    /\ G = NoGraph
    /\ detector = NoFirstRun

\* the first call has returned; the second call starts
CallAgain ==
    /\ pc = "done"
    /\ detector.calls = 0
    /\ detector' = [first |-> result, calls |-> 1]
    /\ rings' = << >>
    /\ result' = NoResult
    /\ pc' = "merge_rings"
    /\ UNCHANGED << algo_results, combined_flags, ring_clusters, suppressed_flags,
                    suppression_multipliers, scores, error, df, G >>

NextTwice == MergeRings \/ BuildOutput \/ CallAgain

SpecTwice == InitTwice /\ [][NextTwice]_vars

\* ------------------------------- compute_scores, called with two multipliers
\* Multipliers in tenths: 0.1 and 0.5 of the unit tests, and 1.0
MultiplierValues == {1, 5, 10}

\* compute_scores(cycle_scores=..., smurfing_scores=..., shell_scores=...,
\* suppression_multipliers=multipliers), the category maps those of the
\* detectors
CallWithMultipliers(multipliers) ==
    CallComputeScores(
        << >>,
        [k \in {"cycle_scores", "smurfing_scores", "shell_scores",
                "suppression_multipliers"} |->
            CASE k = "cycle_scores" -> PyScores(algo_results[1].account_scores)
              [] k = "smurfing_scores" -> PyScores(algo_results[2].account_scores)
              [] k = "shell_scores" -> PyScores(algo_results[3].account_scores)
              [] k = "suppression_multipliers" -> PyScores(multipliers)])

\* the multiplier map with one account's entry set
WithMultiplier(multipliers, account, m) ==
    [a \in DOMAIN multipliers \cup {account} |->
        IF a = account THEN m ELSE multipliers[a]]

\* Two calls with the same category maps; the second with one account's
\* multiplier raised.  detector keeps the account, its two multipliers and
\* the outcome of the first call.
InitTwoMultipliers ==
    /\ pc = "compute_scores"
    /\ \E cycles \in CycleChoices, chains \in ShellChoices, windows \in SmurfChoices :
          algo_results = << CycleResultOf(cycles), SmurfResultOf(windows),
                            ShellResultOf(chains), VelocityResultOf >>
    /\ combined_flags = CombineFlags(algo_results, Len(algo_results))
    /\ ring_clusters = CollectRingClusters(algo_results, Len(algo_results))
    /\ suppressed_flags = EmptyDict
    /\ \E account \in Accounts, lower \in MultiplierValues, higher \in MultiplierValues :
          /\ lower <= higher
          /\ suppression_multipliers = WithMultiplier(EmptyDict, account, lower)
          /\ detector = [account |-> account, lower |-> lower, higher |-> higher,
                         first |-> Returned(EmptyDict)]
    /\ scores = EmptyDict
    /\ rings = << >>
    /\ result = NoResult
    /\ error = "none"
    /\ df = << >>
    /\ G = NoGraph

ScoreWithLower ==
    /\ pc = "compute_scores"
    /\ detector' = [detector EXCEPT
                      !.first = CallWithMultipliers(suppression_multipliers)]
    /\ pc' = "rescoring"
    /\ UNCHANGED << algo_results, combined_flags, ring_clusters, suppressed_flags,
                    suppression_multipliers, scores, rings, result, error, df, G >>

ScoreWithHigher ==
    /\ pc = "rescoring"
    /\ LET call == CallWithMultipliers(
                      WithMultiplier(suppression_multipliers,
                                     detector.account, detector.higher))
       IN  /\ scores' = call.value
           /\ error' = call.exc
    /\ pc' = "rescored"
    /\ UNCHANGED << algo_results, combined_flags, ring_clusters, suppressed_flags,
                    suppression_multipliers, rings, result, df, G, detector >>

NextTwoMultipliers == ScoreWithLower \/ ScoreWithHigher

SpecTwoMultipliers == InitTwoMultipliers /\ [][NextTwoMultipliers]_vars

\* ------------------------------------------------------------ memory store
\* MemoryStore(ttl_seconds, max_items); time in whole seconds
ttl_seconds == 1
max_items == 2
NumKeys == 3
MaxClock == 3

Keys == 1..NumKeys
\* the ForensicResults stored, told apart by the account id of
\* _make_result(account_id)
StoredResults == {1, 2}

PyNone == [type |-> "NoneType"]
PyResult(v) == [type |-> "ForensicResult", account_id |-> v]

\* self._store: the OrderedDict as the sequence of its items in insertion
\* order, an item being key -> (ts, value)
KeysOf(store) == {store[i].key : i \in 1..Len(store)}
ItemOf(store, key) == store[CHOOSE i \in 1..Len(store) : store[i].key = key]

\* now - ts > self._ttl, taken at the next second
is_expired_late(now, ts) == now - ts > ttl_seconds + 1
\* now - ts > self._ttl
is_expired(now, ts) == now - ts > ttl_seconds

\* popitem(last=True)
popitem_last(store) == SubSeq(store, 1, Len(store) - 1)
\* popitem(last=False)
popitem(store) == Tail(store)

_evict_expired(store, now) ==
    SelectSeq(store, LAMBDA item : ~is_expired(now, item.ts))

\* set(key, value): now the clock read of _evict_expired, stamp the clock
\* read of the assignment
set(store, key, value, now, stamp) ==
    LET purged == _evict_expired(store, now)
        kept == IF key \in KeysOf(purged)
                THEN SelectSeq(purged, LAMBDA item : item.key # key)
                ELSE IF Len(purged) >= max_items
                     THEN popitem(purged)
                     ELSE purged
    IN  Append(kept, [key |-> key, ts |-> stamp, value |-> value])

\* get(key): the store left behind and the value returned
get(store, key, now) ==
    LET purged == _evict_expired(store, now)
    IN  [store |-> purged,
         value |-> IF key \in KeysOf(purged)
                   THEN PyResult(ItemOf(purged, key).value)
                   ELSE PyNone]

\* detector holds the store: _store, the clock, the last call with the
\* store it found, and what the last get returned
NoCall == [name |-> "__init__", key |-> 0, value |-> 0, found |-> << >>, at |-> 0]

InitStore ==
    /\ pc = "store"
    /\ detector = [_store |-> << >>, now |-> 0, call |-> NoCall, returned |-> PyNone]
    /\ algo_results = << >>
    /\ combined_flags = EmptyDict
    /\ ring_clusters = << >>
    /\ suppressed_flags = EmptyDict
    /\ suppression_multipliers = EmptyDict
    /\ scores = EmptyDict
    /\ rings = << >>
    /\ result = NoResult
    /\ error = "none"
    /\ df = << >>
    /\ G = NoGraph

\* the clock advances between two calls
Tick ==
    /\ pc = "store"
    /\ detector.now < MaxClock
    /\ detector' = [detector EXCEPT !.now = @ + 1]
    /\ UNCHANGED << pc, algo_results, combined_flags, ring_clusters, suppressed_flags,
                    suppression_multipliers, scores, rings, result, error, df, G >>

StoreSet ==
    /\ pc = "store"
    /\ \E key \in Keys, value \in StoredResults,
          stamp \in {detector.now, Min(detector.now + 1, MaxClock)} :
          detector' = [_store |-> set(detector._store, key, value, detector.now, stamp),
                       now |-> stamp,
                       call |-> [name |-> "set", key |-> key, value |-> value,
                                 found |-> detector._store, at |-> detector.now],
                       returned |-> PyNone]
    /\ UNCHANGED << pc, algo_results, combined_flags, ring_clusters, suppressed_flags,
                    suppression_multipliers, scores, rings, result, error, df, G >>

StoreGet ==
    /\ pc = "store"
    /\ \E key \in Keys :
          LET got == get(detector._store, key, detector.now)
          IN  detector' = [_store |-> got.store,
                           now |-> detector.now,
                           call |-> [name |-> "get", key |-> key, value |-> 0,
                                     found |-> detector._store, at |-> detector.now],
                           returned |-> got.value]
    /\ UNCHANGED << pc, algo_results, combined_flags, ring_clusters, suppressed_flags,
                    suppression_multipliers, scores, rings, result, error, df, G >>

NextStore == Tick \/ StoreSet \/ StoreGet

SpecStore == InitStore /\ [][NextStore]_vars

\* ------------------------------------------- memory store, uses kept track of
\* The store of SpecStore with, next to it, the keys in the order of their
\* last use: a set of a key and a get that returns its entry are uses.
\* uses lists the keys in the store, least recently used first.
Touch(uses, store, key) ==
    LET present == SelectSeq(uses, LAMBDA k : k \in KeysOf(store) /\ k # key)
    IN  IF key \in KeysOf(store) THEN Append(present, key) ELSE present

InitCache ==
    /\ pc = "cache"
    /\ detector = [_store |-> << >>, now |-> 0, uses |-> << >>,
                   call |-> [name |-> "__init__", key |-> 0, found |-> << >>,
                             used |-> << >>, at |-> 0],
                   returned |-> PyNone]
    /\ algo_results = << >>
    /\ combined_flags = EmptyDict
    /\ ring_clusters = << >>
    /\ suppressed_flags = EmptyDict
    /\ suppression_multipliers = EmptyDict
    /\ scores = EmptyDict
    /\ rings = << >>
    /\ result = NoResult
    /\ error = "none"
    /\ df = << >>
    /\ G = NoGraph

CacheTick ==
    /\ pc = "cache"
    /\ detector.now < MaxClock
    /\ detector' = [detector EXCEPT !.now = @ + 1]
    /\ UNCHANGED << pc, algo_results, combined_flags, ring_clusters, suppressed_flags,
                    suppression_multipliers, scores, rings, result, error, df, G >>

CacheSet ==
    /\ pc = "cache"
    /\ \E key \in Keys :
          LET stored == set(detector._store, key, key, detector.now, detector.now)
          IN  detector' = [_store |-> stored,
                           now |-> detector.now,
                           uses |-> Touch(detector.uses, stored, key),
                           call |-> [name |-> "set", key |-> key,
                                     found |-> detector._store,
                                     used |-> detector.uses, at |-> detector.now],
                           returned |-> PyNone]
    /\ UNCHANGED << pc, algo_results, combined_flags, ring_clusters, suppressed_flags,
                    suppression_multipliers, scores, rings, result, error, df, G >>

CacheGet ==
    /\ pc = "cache"
    /\ \E key \in Keys :
          LET got == get(detector._store, key, detector.now)
          IN  detector' = [_store |-> got.store,
                           now |-> detector.now,
                           uses |-> Touch(detector.uses, got.store, key),
                           call |-> [name |-> "get", key |-> key,
                                     found |-> detector._store,
                                     used |-> detector.uses, at |-> detector.now],
                           returned |-> got.value]
    /\ UNCHANGED << pc, algo_results, combined_flags, ring_clusters, suppressed_flags,
                    suppression_multipliers, scores, rings, result, error, df, G >>

NextCache == CacheTick \/ CacheSet \/ CacheGet

SpecCache == InitCache /\ [][NextCache]_vars

\* ---------------------------------------------------- build_graph, on its own
GraphNodes == 3
GraphRows == 3

\* the ordered pairs of distinct accounts (the validator drops self-loops)
GraphPairs == {e \in (1..GraphNodes) \X (1..GraphNodes) : e[1] # e[2]}
\* row i of a table, on pair e
GraphRow(e, i) ==
    [sender_id |-> e[1], receiver_id |-> e[2], amount |-> 10 * i + e[1], timestamp |-> i]

\* the tables of 1..GraphRows rows, pairs repeating freely
InitGraph ==
    /\ pc = "build_graph"
    /\ \E n \in 1..GraphRows :
          \E pairs \in [1..n -> GraphPairs] :
             df = [i \in 1..n |-> GraphRow(pairs[i], i)]
    /\ G = NoGraph
    /\ detector = NoDetector
    /\ algo_results = << >>
    /\ combined_flags = EmptyDict
    /\ ring_clusters = << >>
    /\ suppressed_flags = EmptyDict
    /\ suppression_multipliers = EmptyDict
    /\ scores = EmptyDict
    /\ rings = << >>
    /\ result = NoResult
    /\ error = "none"

BuildGraph ==
    /\ pc = "build_graph"
    /\ G' = build_graph(df)
    /\ pc' = "graph_built"
    /\ UNCHANGED << algo_results, combined_flags, ring_clusters, suppressed_flags,
                    suppression_multipliers, scores, rings, result, error, df, detector >>

NextGraph == BuildGraph

SpecGraph == InitGraph /\ [][NextGraph]_vars

\* ------------------------------------ the cycle detector, with scaled limits
\* The run of SpecCycle with the two limits scaled to the tables of the
\* model: CappedSccSize stands for _MAX_SCC_SIZE = 50 and CappedCycles for
\* _MAX_CYCLES_PER_SCC = 500.
CappedSccSize == 3
CappedCycles == 1

InitCycleCapped ==
    /\ pc = "cycle_run"
    /\ df \in Tables
    /\ G = build_graph(df)
    /\ detector = [NoDetector EXCEPT
                      !.caps = [max_scc_size |-> CappedSccSize,
                                max_cycles_per_scc |-> CappedCycles]]
    /\ algo_results = << >>
    /\ combined_flags = EmptyDict
    /\ ring_clusters = << >>
    /\ suppressed_flags = EmptyDict
    /\ suppression_multipliers = EmptyDict
    /\ scores = EmptyDict
    /\ rings = << >>
    /\ result = NoResult
    /\ error = "none"

SpecCycleCapped == InitCycleCapped /\ [][NextCycle]_vars

\* ------------------------------------- the shell detector, with a scaled limit
\* The run of SpecShell with CappedChains in the place of MAX_CHAINS = 10 000.
CappedChains == 1

InitShellCapped ==
    /\ pc = "shell_run"
    /\ df \in ShellTables
    /\ G = build_graph(df)
    /\ detector = [NoShellRun EXCEPT !.max_chains = CappedChains]
    /\ algo_results = << >>
    /\ combined_flags = EmptyDict
    /\ ring_clusters = << >>
    /\ suppressed_flags = EmptyDict
    /\ suppression_multipliers = EmptyDict
    /\ scores = EmptyDict
    /\ rings = << >>
    /\ result = NoResult
    /\ error = "none"

SpecShellCapped == InitShellCapped /\ [][NextShell]_vars

\* ----------------------------------------------------- _payroll_multiplier
\* payroll_amount_cv_threshold = 0.15 and payroll_interval_cv_threshold = 0.2,
\* as fractions
payroll_amount_cv_threshold == << 3, 20 >>
payroll_interval_cv_threshold == << 1, 5 >>
\* thresh * 0.5
HalfOf(thresh) == << thresh[1], 2 * thresh[2] >>

SumOfSeq(values) == SumOver(values, 1..Len(values))
\* n * sum(x^2) - sum(x)^2, which is n * (n - 1) * values.std() ^ 2
ScaledVariance(values) ==
    Len(values) * SumOfSeq([i \in 1..Len(values) |-> values[i] * values[i]])
    - SumOfSeq(values) * SumOfSeq(values)

\* values.std() / values.mean() < thresh for a positive mean, std being the
\* sample standard deviation: NaN for a single value, and NaN < thresh is
\* False
CvBelow(values, thresh) ==
    /\ Len(values) >= 2
    /\ thresh[2] * thresh[2] * Len(values) * ScaledVariance(values)
          < thresh[1] * thresh[1] * (Len(values) - 1)
               * SumOfSeq(values) * SumOfSeq(values)

\* outgoing["timestamp"].diff().dropna(), of the sorted timestamps
Diffs(timestamps) == [i \in 1..(Len(timestamps) - 1) |-> timestamps[i + 1] - timestamps[i]]

\* _payroll_multiplier(account, df, settings), in tenths
_payroll_multiplier(account, table) ==
    LET outgoing == SelectSeq(table, LAMBDA row : row.sender_id = account)
        amounts == [i \in 1..Len(outgoing) |-> outgoing[i].amount]
        timestamps == SortedList([i \in 1..Len(outgoing) |-> outgoing[i].timestamp],
                                 LAMBDA a, b : a < b)
        intervals == Diffs(timestamps)
        amount_below(thresh) == CvBelow(amounts, thresh)
        \* interval_cv = intervals.std() / interval_mean if interval_mean > 0 else 0.0
        interval_below(thresh) ==
            IF SumOfSeq(intervals) > 0 THEN CvBelow(intervals, thresh) ELSE TRUE
        amt_thresh == payroll_amount_cv_threshold
        int_thresh == payroll_interval_cv_threshold
    IN  IF Len(outgoing) < 2 THEN 10
        ELSE IF SumOfSeq(amounts) = 0 THEN 10
        ELSE IF Len(intervals) = 0 THEN 10
        ELSE IF amount_below(HalfOf(amt_thresh)) /\ interval_below(HalfOf(int_thresh)) THEN 1
        ELSE IF amount_below(amt_thresh) /\ interval_below(int_thresh) THEN 2
        ELSE IF amount_below(amt_thresh) \/ interval_below(int_thresh) THEN 5
        ELSE 10

\* Calls of _payroll_multiplier for account 1: tables of up to
\* MaxPayrollRows rows, each of account 1 or 2, with amounts and hours that
\* put both CVs below half the threshold, between, and above.
MaxPayrollRows == 3
PayrollAmounts == {0, 100, 120}
PayrollHours == {0, 20, 24, 44, 48}
PayrollTables ==
    UNION {[1..n -> [sender_id : {1}, receiver_id : {3}, amount : PayrollAmounts,
                     timestamp : PayrollHours]] : n \in 0..MaxPayrollRows}
    \cup {<< [sender_id |-> 2, receiver_id |-> 3, amount |-> 100, timestamp |-> 0],
             [sender_id |-> 1, receiver_id |-> 3, amount |-> 100, timestamp |-> 0] >>}

NoPayrollCall == [account |-> 0, returned |-> 0]

InitPayroll ==
    /\ pc = "payroll"
    /\ df \in PayrollTables
    /\ detector = NoPayrollCall
    /\ G = NoGraph
    /\ algo_results = << >>
    /\ combined_flags = EmptyDict
    /\ ring_clusters = << >>
    /\ suppressed_flags = EmptyDict
    /\ suppression_multipliers = EmptyDict
    /\ scores = EmptyDict
    /\ rings = << >>
    /\ result = NoResult
    /\ error = "none"

PayrollMultiplier ==
    /\ pc = "payroll"
    /\ detector' = [account |-> 1, returned |-> _payroll_multiplier(1, df)]
    /\ pc' = "payroll_returned"
    /\ UNCHANGED << algo_results, combined_flags, ring_clusters, suppressed_flags,
                    suppression_multipliers, scores, rings, result, error, df, G >>

NextPayroll == PayrollMultiplier

SpecPayroll == InitPayroll /\ [][NextPayroll]_vars

\* ------------------------------------------- merge_rings, on one ring's labels
\* One cluster of two suspicious accounts.  Each account has up to MaxLabels
\* of the labels of RingLabels; all labels of account 1 may be suppressed.
\* The scores put the mean at the threshold, between two tenths, and high
\* enough for the bonuses to pass 100.
MaxLabels == 2
RingLabels ==
    {"cycle_length_3", "cycle_length_4", "smurfing_fan_in", "shell_source",
     "burst_activity", "velocity_spike"}
LabelLists ==
    {SortedSeq(labels, PatternLess) :
        labels \in {labels \in SUBSET RingLabels : Cardinality(labels) <= MaxLabels}}
RingScores == {suspicious_score_threshold, suspicious_score_threshold + 30, 85000, 96400}

InitRingTypes ==
    /\ pc = "merge_rings"
    /\ algo_results = << >>
    /\ combined_flags \in [{1, 2} -> LabelLists]
    /\ ring_clusters = << {1, 2} >>
    /\ suppressed_flags \in {EmptyDict, [acc \in {1} |-> combined_flags[1]]}
    /\ suppression_multipliers = EmptyDict
    /\ scores \in [{1, 2} -> RingScores]
    /\ rings = << >>
    /\ result = NoResult
    /\ error = "none"
    /\ df = << >>
    /\ G = NoGraph
    /\ detector = NoDetector

SpecRingTypes == InitRingTypes /\ [][NextRings]_vars

\* ------------------------------------- the cycle detector run a second time
\* A caller runs the detector on a table, keeps what it returned (in
\* result) and runs it again on the same table and graph; each run takes
\* the circuits from nx.simple_cycles in an order of its own.
InitCycleOrders ==
    /\ pc = "cycle_run"
    /\ df \in Tables
    /\ G = build_graph(df)
    /\ detector = NoDetector
    /\ algo_results = << >>
    /\ combined_flags = EmptyDict
    /\ ring_clusters = << >>
    /\ suppressed_flags = EmptyDict
    /\ suppression_multipliers = EmptyDict
    /\ scores = EmptyDict
    /\ rings = << >>
    /\ result = << >>
    /\ error = "none"

CycleRunAgain ==
    /\ pc = "cycle_returned"
    /\ result = << >>
    /\ result' = algo_results
    /\ algo_results' = << >>
    /\ detector' = NoDetector
    /\ pc' = "cycle_run"
    /\ UNCHANGED << combined_flags, ring_clusters, suppressed_flags,
                    suppression_multipliers, scores, rings, error, df, G >>

NextCycleOrders == NextCycle \/ CycleRunAgain

SpecCycleOrders == InitCycleOrders /\ [][NextCycleOrders]_vars

\* ------------------------------------------------- properties: ring merger
RingMembers(i) == Range(rings[i].member_accounts)
Universe == {acc \in DOMAIN scores : scores[acc] >= suspicious_score_threshold}

\* The universe members reachable from S through clusters, each cluster
\* restricted to its universe members.
RECURSIVE LinkedClosure(_)
LinkedClosure(S) ==
    LET next == S \cup UNION {c \cap Universe : c \in
                                {d \in Range(ring_clusters) : d \cap Universe \cap S # {}}}
    IN  IF next = S THEN S ELSE LinkedClosure(next)
ConnectedGroups == {LinkedClosure({acc}) : acc \in Universe}

\* C4: the rings returned by merge_rings are pairwise disjoint and each has
\* at least 2 members.
C4_RingsDisjoint ==
    pc = "returned" =>
        /\ \A i, j \in 1..Len(rings) : i # j => RingMembers(i) \cap RingMembers(j) = {}
        /\ \A i \in 1..Len(rings) : Cardinality(RingMembers(i)) >= 2
C4_Witness ==
    /\ pc = "returned"
    /\ Len(rings) >= 2
    /\ \E acc \in Universe : \A i \in 1..Len(rings) : acc \notin RingMembers(i)

C8_GroupsAreChains ==
    pc = "returned" =>
        \A x, y \in Universe : x # y =>
            ((\E i \in 1..Len(rings) : {x, y} \subseteq RingMembers(i))
                <=> y \in LinkedClosure({x}))
C8_Witness ==
    /\ pc = "returned"
    /\ Len(ring_clusters) = 2
    /\ ring_clusters[1] \cap ring_clusters[2] \cap Universe # {}
    /\ Len(rings) = 1
    /\ RingMembers(1) = (ring_clusters[1] \cup ring_clusters[2]) \cap Universe
    /\ Cardinality(RingMembers(1)) > Cardinality(ring_clusters[1])
    /\ Cardinality(RingMembers(1)) > Cardinality(ring_clusters[2])


\* ------------------------------------------------- properties: build_output
Done == pc = "done"
EmittedIds == {a.account_id : a \in Range(result.suspicious_accounts)}
EmittedOf(acc) == CHOOSE a \in Range(result.suspicious_accounts) : a.account_id = acc
RingsOf(acc) == {r \in Range(result.fraud_rings) : acc \in Range(r.member_accounts)}
OnlySmurfOrVelocity(acc) ==
    /\ acc \in DOMAIN combined_flags
    /\ \A p \in Range(combined_flags[acc]) :
          StartsWithSmurfing(p) \/ p \in RM_VELOCITY_PATTERNS

\* C1 (as stated): an account appears in suspicious_accounts iff its final
\* score is strictly greater than suspicious_score_threshold; an account
\* whose score equals the threshold is not emitted.
C1_EmittedIffStrictlyAbove ==
    Done => \A acc \in DOMAIN scores :
               acc \in EmittedIds <=> scores[acc] > suspicious_score_threshold

C1_AtThresholdEmitted ==
    /\ Done
    /\ \E acc \in DOMAIN scores :
          scores[acc] = suspicious_score_threshold /\ acc \in EmittedIds

\* C5: an emitted account that is a member of ring R carries R's ring_id;
\* an emitted account that is a member of no ring carries "NONE".
C5_RingIdConsistent ==
    Done => \A a \in Range(result.suspicious_accounts) :
               /\ \A r \in RingsOf(a.account_id) : a.ring_id = r.ring_id
               /\ RingsOf(a.account_id) = {} => a.ring_id = NONE

C5_Witness ==
    /\ Done
    /\ \E a, c \in Range(result.suspicious_accounts) :
          /\ a.ring_id = FormatRingId(1)
          /\ RingsOf(a.account_id) # {}
          /\ c.ring_id = NONE
          /\ RingsOf(c.account_id) = {}

\* C6: suspicious_accounts is sorted by descending score then ascending
\* account_id; fraud_rings by descending risk_score then ascending ring_id;
\* detected_patterns is sorted ascending without duplicates; member_accounts
\* is sorted ascending.
C6_OutputOrdered ==
    Done =>
      /\ \A i, j \in 1..Len(result.suspicious_accounts) :
            i < j =>
               LET a == result.suspicious_accounts[i]
                   b == result.suspicious_accounts[j]
               IN  \/ a.suspicion_score > b.suspicion_score
                   \/ /\ a.suspicion_score = b.suspicion_score
                      /\ a.account_id < b.account_id
      /\ \A i, j \in 1..Len(result.fraud_rings) :
            i < j =>
               LET r == result.fraud_rings[i]
                   s == result.fraud_rings[j]
               IN  \/ r.risk_score > s.risk_score
                   \/ /\ r.risk_score = s.risk_score
                      /\ LexLess(r.ring_id, s.ring_id)
      /\ \A a \in Range(result.suspicious_accounts) :
            \A i, j \in 1..Len(a.detected_patterns) :
               i < j => PatternLess(a.detected_patterns[i], a.detected_patterns[j])
      /\ \A r \in Range(result.fraud_rings) :
            \A i, j \in 1..Len(r.member_accounts) :
               i < j => r.member_accounts[i] < r.member_accounts[j]

C6_Witness ==
    /\ Done
    /\ \E i, j \in 1..Len(result.suspicious_accounts) :
          /\ i < j
          /\ result.suspicious_accounts[i].suspicion_score
                = result.suspicious_accounts[j].suspicion_score
    /\ \E i \in 1..Len(result.suspicious_accounts) :
          /\ result.suspicious_accounts[1].suspicion_score
                > result.suspicious_accounts[i].suspicion_score
          /\ result.suspicious_accounts[1].account_id
                > result.suspicious_accounts[i].account_id
    /\ Len(result.fraud_rings) >= 2
    /\ result.fraud_rings[1].ring_id # FormatRingId(1)
    /\ \E a \in Range(result.suspicious_accounts) : Len(a.detected_patterns) >= 3

CategoryScore(i, acc) == Get(algo_results[i].account_scores, acc, 0)
ScoredAccounts == UNION {DOMAIN algo_results[i].account_scores : i \in 1..4}

\* C2 (as stated): compute_scores returns an entry for exactly the accounts
\* of the category maps, each round(cycle + multiplier*smurfing + shell +
\* velocity, 1), a missing category being 0 and a missing multiplier 1.
C2_ScoreFormula ==
    pc = "scored" =>
       /\ error = "none"
       /\ DOMAIN scores = ScoredAccounts
       /\ \A acc \in DOMAIN scores :
             scores[acc] =
                RoundTo(10 * (CategoryScore(1, acc) + CategoryScore(3, acc)
                              + CategoryScore(4, acc))
                        + Get(suppression_multipliers, acc, 10) * CategoryScore(2, acc),
                        10, 100)

C2_KeywordCallRaises ==
    /\ pc = "scored"
    /\ error = "TypeError"
    /\ ScoredAccounts # {}

\* C3 (as stated): run_pipeline runs every stage and no stage raises.
C3_NoStageRaises == error = "none"

C3_ScoringRaises == pc = "raised" /\ error = "TypeError"

\* ------------------------------------------------ properties: cycle detector
CycleClusters == detector.result.clusters
\* the circuits of the qualifying SCCs that pass the length and volume filters
ValidCycles ==
    UNION {{c \in simple_cycles(scc, G) : PassesFilters(c, G, Median2(df))} :
              scc \in {scc \in strongly_connected_components(G) :
                          Cardinality(scc) >= min_cycle_length}}

\* C10: the cycle detector's cluster list never holds two clusters with the
\* same account set; all the valid circuits over one account set, in any
\* rotation or direction, contribute exactly one cluster.
C10_ClustersUnique ==
    /\ \A i, j \in 1..Len(CycleClusters) :
          i # j => CycleClusters[i] # CycleClusters[j]
    /\ pc = "cycle_returned" =>
          /\ Range(algo_results[1].clusters) = {Range(c) : c \in ValidCycles}
          /\ Len(algo_results[1].clusters) = Cardinality({Range(c) : c \in ValidCycles})

C10_Witness ==
    /\ pc = "cycle_returned"
    /\ \E c, d \in ValidCycles :
          /\ c # d
          /\ Range(c) = Range(d)
          /\ Range(c) \in Range(algo_results[1].clusters)

\* --------------------------------------------- properties: smurfing detector
\* the distinct counterparties of the rows of `central` whose timestamp lies
\* in [t, t + window]
PartiesWithin(central, column, other, t) ==
    {r[other] : r \in {r \in RowsOf(df) :
                          /\ r[column] = central
                          /\ t <= r.timestamp
                          /\ r.timestamp <= t + smurfing_window_hours}}
\* the timestamps of the anchor rows of `central` that trigger
AnchorTimes(central, column, other) ==
    {r.timestamp : r \in {r \in RowsOf(df) :
        /\ r[column] = central
        /\ Cardinality(PartiesWithin(central, column, other, r.timestamp))
              >= detector.min_degree}}
EarliestAnchor(central, column, other) ==
    CHOOSE t \in AnchorTimes(central, column, other) :
        \A u \in AnchorTimes(central, column, other) : t <= u
\* the (account, direction) pairs that trigger, with the cluster each one
\* is to emit
ExpectedSmurfs ==
    {[central |-> a, pattern |-> "smurfing_fan_in",
      cluster |-> {a} \cup PartiesWithin(a, "receiver_id", "sender_id",
                                         EarliestAnchor(a, "receiver_id", "sender_id"))] :
        a \in {a \in DOMAIN G.nodes : AnchorTimes(a, "receiver_id", "sender_id") # {}}}
    \cup
    {[central |-> a, pattern |-> "smurfing_fan_out",
      cluster |-> {a} \cup PartiesWithin(a, "sender_id", "receiver_id",
                                         EarliestAnchor(a, "sender_id", "receiver_id"))] :
        a \in {a \in DOMAIN G.nodes : AnchorTimes(a, "sender_id", "receiver_id") # {}}}

\* C11: an account is flagged smurfing_fan_in (smurfing_fan_out) exactly when
\* one of its incoming (outgoing) rows anchors a window [ts, ts + window],
\* both ends included, with at least smurfing_min_degree distinct
\* counterparties; each flagged account and direction has exactly one
\* cluster, the account plus the counterparties of the earliest such window.
C11_SmurfWindow ==
    pc = "smurf_returned" =>
        LET res == algo_results[1]
        IN  /\ \A a \in DOMAIN G.nodes :
               \A pattern \in {"smurfing_fan_in", "smurfing_fan_out"} :
                  (pattern \in Range(Get(res.account_flags, a, << >>)))
                     <=> (\E x \in ExpectedSmurfs : x.central = a /\ x.pattern = pattern)
            /\ Len(res.clusters) = Cardinality(ExpectedSmurfs)
            /\ \A x \in ExpectedSmurfs :
                  Cardinality({i \in 1..Len(res.clusters) : res.clusters[i] = x.cluster})
                     = Cardinality({y \in ExpectedSmurfs : y.cluster = x.cluster})

\* a receiver is flagged whose triggering window closes exactly `window`
\* hours after its anchor, and nothing shorter triggers
C11_Witness ==
    /\ pc = "smurf_returned"
    /\ \E x \in ExpectedSmurfs :
          /\ x.pattern = "smurfing_fan_in"
          /\ x.cluster \in Range(algo_results[1].clusters)
          /\ \A r \in RowsOf(df) : r.receiver_id = x.central => r.timestamp \in {0, 72}
          /\ Cardinality({r.sender_id : r \in {r \in RowsOf(df) :
                 r.receiver_id = x.central /\ r.timestamp = 0}}) < detector.min_degree
          /\ Cardinality({r.sender_id : r \in {r \in RowsOf(df) :
                 r.receiver_id = x.central /\ r.timestamp = 72}}) < detector.min_degree

\* ------------------------------------------ properties: shell-chain detector
InShellRun == pc \in {"shell_sources", "shell_returned"}
IsShellNode(n) == G.nodes[n].total_transactions <= shell_max_total_transactions
\* p is a simple directed path of G from a non-shell node through shell
\* nodes to a non-shell node
IsShellChain(p) ==
    /\ Len(p) >= 2
    /\ \A i, j \in 1..Len(p) : i # j => p[i] # p[j]
    /\ \A i \in 1..(Len(p) - 1) : << p[i], p[i + 1] >> \in DOMAIN G.edges
    /\ ~IsShellNode(p[1])
    /\ ~IsShellNode(p[Len(p)])
    /\ \A i \in 2..(Len(p) - 1) : IsShellNode(p[i])

\* C12: every cluster of the shell-chain detector is the node set of a
\* recorded path that is a simple directed path of G, starts and ends at a
\* non-shell node, passes through shell nodes only, and has at least
\* shell_chain_min_hops and at most MAX_DEPTH edges.
C12_ClustersAreShellChains ==
    InShellRun =>
        /\ \A p \in detector.seen_paths :
              /\ IsShellChain(p)
              /\ shell_chain_min_hops <= Len(p) - 1
              /\ Len(p) - 1 <= MAX_DEPTH
        /\ \A i \in 1..Len(detector.result.clusters) :
              \E p \in detector.seen_paths : Range(p) = detector.result.clusters[i]

\* a chain of exactly MAX_DEPTH hops is recorded
C12_Witness ==
    /\ pc = "shell_returned"
    /\ \E i \in 1..Len(algo_results[1].clusters) :
          Cardinality(algo_results[1].clusters[i]) = MAX_DEPTH + 1

ChainEnds == UNION {{p[1], p[Len(p)]} : p \in detector.seen_paths}
ChainInteriors == UNION {{p[i] : i \in 2..(Len(p) - 1)} : p \in detector.seen_paths}
Occurrences(flags, pattern) == Cardinality({i \in 1..Len(flags) : flags[i] = pattern})

\* C13: after the shell-chain detector has run, an account carries
\* shell_source exactly when it is the first or last node of a recorded
\* chain and shell_intermediary exactly when it is an interior node of one;
\* no account carries both labels and no label is repeated on an account.
C13_ShellLabels ==
    pc = "shell_returned" =>
        LET flags(a) == Get(algo_results[1].account_flags, a, << >>)
        IN  \A a \in DOMAIN G.nodes :
               /\ ("shell_source" \in Range(flags(a))) <=> (a \in ChainEnds)
               /\ ("shell_intermediary" \in Range(flags(a))) <=> (a \in ChainInteriors)
               /\ ~({"shell_source", "shell_intermediary"} \subseteq Range(flags(a)))
               /\ Occurrences(flags(a), "shell_source") <= 1
               /\ Occurrences(flags(a), "shell_intermediary") <= 1

\* two recorded chains share an end and an interior node
C13_Witness ==
    /\ pc = "shell_returned"
    /\ \E p, q \in detector.seen_paths :
          /\ p # q
          /\ p[1] = q[1]
          /\ p[2] = q[2]
          /\ "shell_source" \in Range(algo_results[1].account_flags[p[1]])
          /\ "shell_intermediary" \in Range(algo_results[1].account_flags[p[2]])

\* ------------------------------------------------ properties: merchant rule
\* the first matching tier, with 0.6 * M and 0.3 * M compared exactly
ExactMerchantTier(in_deg, out_deg, M) ==
    IF in_deg >= 2 * M /\ out_deg = 0 THEN 1
    ELSE IF in_deg >= M /\ out_deg = 0 THEN 2
    ELSE IF 10 * in_deg >= 6 * M /\ out_deg <= 3 THEN 5
    ELSE IF 10 * in_deg >= 3 * M THEN 8
    ELSE 10

\* C14 (as stated): for every in-degree, out-degree and positive
\* merchant_min_in_degree M the merchant rule returns the first matching tier
\* of 0.1, 0.2, 0.5, 0.8, 1.0, the in-degree being compared with the exact
\* products 0.6 * M and 0.3 * M.
C14_MerchantTiers ==
    pc = "merchant_returned" =>
        detector.returned
           = ExactMerchantTier(detector.in_deg, detector.out_deg, detector.min_in)

\* the rule returns 0.5 for an in-degree below 0.6 * M
C14_TruncatedThreshold ==
    /\ pc = "merchant_returned"
    /\ detector.returned = 5
    /\ 10 * detector.in_deg < 6 * detector.min_in

\* ------------------------------------------- properties: apply_suppression
HasFlag(acc, pattern) == pattern \in Range(combined_flags[acc])
\* the outputs of the rules that apply to the account
ApplicableOutputs(acc) ==
    (IF HasFlag(acc, "smurfing_fan_out") THEN {detector.payroll[acc]} ELSE {})
    \cup (IF HasFlag(acc, "smurfing_fan_in") THEN {detector.merchant[acc]} ELSE {})
\* the smurfing labels whose rule returned a multiplier <= 0.2
StronglySuppressed(acc) ==
    (IF HasFlag(acc, "smurfing_fan_out") /\ detector.payroll[acc] <= 2
     THEN {"smurfing_fan_out"} ELSE {})
    \cup (IF HasFlag(acc, "smurfing_fan_in") /\ detector.merchant[acc] <= 2
          THEN {"smurfing_fan_in"} ELSE {})

\* C15: apply_suppression gives each account the minimum of the outputs of
\* the rules that apply to it (1.0 if none applies); the removed-display list
\* of an account holds exactly the smurfing labels whose own rule returned a
\* multiplier <= 0.2; an account without a smurfing label is in neither map.
C15_SuppressionContract ==
    pc = "suppression_returned" =>
        \A acc \in DOMAIN combined_flags :
            LET removed == Get(suppressed_flags, acc, << >>)
                outputs == ApplicableOutputs(acc) \cup {10}
            IN  /\ Get(suppression_multipliers, acc, 10)
                      = (CHOOSE m \in outputs : \A n \in outputs : m <= n)
                /\ Range(removed) = StronglySuppressed(acc)
                /\ Len(removed) = Cardinality(StronglySuppressed(acc))
                /\ (ApplicableOutputs(acc) = {}) =>
                      /\ acc \notin DOMAIN suppressed_flags
                      /\ acc \notin DOMAIN suppression_multipliers
            /\ DOMAIN suppressed_flags \subseteq DOMAIN combined_flags
            /\ DOMAIN suppression_multipliers \subseteq DOMAIN combined_flags

\* an account with both smurfing labels whose payroll rule returned 0.1 and
\* whose merchant rule returned 0.5: only smurfing_fan_out is removed
C15_Witness ==
    /\ pc = "suppression_returned"
    /\ \E acc \in DOMAIN combined_flags :
          /\ HasFlag(acc, "smurfing_fan_out")
          /\ HasFlag(acc, "smurfing_fan_in")
          /\ detector.payroll[acc] = 1
          /\ detector.merchant[acc] = 5
          /\ suppressed_flags[acc] = << "smurfing_fan_out" >>
          /\ suppression_multipliers[acc] = 1

\* ------------------------------------------------ properties: score ranges
CyclePcs == {"cycle_run", "cycle_next_scc", "cycle_enumerate", "cycle_returned"}
SmurfPcs == {"smurf_run", "smurf_fan_in", "smurf_fan_out", "smurf_return",
             "smurf_returned"}
ShellPcs == {"shell_run", "shell_sources", "shell_returned"}
VelocityPcs == {"velocity_run", "velocity_burst", "velocity_high", "velocity_spike",
                "velocity_dormancy", "velocity_return", "velocity_returned"}
AllWithin(account_scores, cap) ==
    \A acc \in DOMAIN account_scores :
        0 <= account_scores[acc] /\ account_scores[acc] <= cap

\* C16: every category score a detector emits lies in its category's range
\* (cycle 0..40, smurfing 0..25, shell 0..20, velocity 0..15), and every
\* final score compute_scores returns lies in 0..100.
C16_ScoresInRange ==
    /\ pc \in CyclePcs => AllWithin(detector.result.account_scores, 40000)
    /\ pc \in SmurfPcs => AllWithin(detector.result.account_scores, 25000)
    /\ pc \in ShellPcs => AllWithin(detector.result.account_scores, 20000)
    /\ pc \in VelocityPcs => AllWithin(detector.result.account_scores, 15000)
    /\ pc \in {"scored", "scored_flags"} => AllWithin(scores, 100000)

\* the velocity detector has returned a score of exactly 15.0
C16_Witness ==
    /\ pc = "velocity_returned"
    /\ \E acc \in DOMAIN algo_results[1].account_scores :
          algo_results[1].account_scores[acc] = 15000

\* ---------------------------------------------- properties: repeated calls
SecondCallDone == pc = "done" /\ detector.calls = 1

\* C17 (as stated): two calls of run_pipeline on the same table with the
\* same settings return the same suspicious_accounts, fraud_rings and
\* summary, field for field.
C17_CallsAgree ==
    SecondCallDone =>
        /\ result.suspicious_accounts = detector.first.suspicious_accounts
        /\ result.fraud_rings = detector.first.fraud_rings
        /\ result.summary = detector.first.summary

\* the two calls agree on the accounts, the rings and the counts, and
\* differ in summary.processing_time_seconds
C17_TimingDiffers ==
    /\ SecondCallDone
    /\ result.suspicious_accounts = detector.first.suspicious_accounts
    /\ result.suspicious_accounts # << >>
    /\ result.fraud_rings = detector.first.fraud_rings
    /\ result.summary.suspicious_accounts_flagged
          = detector.first.summary.suspicious_accounts_flagged
    /\ result.summary.processing_time_seconds
          # detector.first.summary.processing_time_seconds

\* ------------------------------------- properties: multiplier monotonicity
\* C18 (as stated): with the category scores fixed, raising one account's
\* multiplier from m to m' <= 1.0 gives that account a final score that is
\* not lower and every other account the same final score.
C18_MultiplierMonotone ==
    pc = "rescored" =>
       /\ detector.first.exc = "none"
       /\ error = "none"
       /\ DOMAIN scores = DOMAIN detector.first.value
       /\ \A acc \in DOMAIN scores :
             IF acc = detector.account
             THEN scores[acc] >= detector.first.value[acc]
             ELSE scores[acc] = detector.first.value[acc]

\* both calls made for an account with a smurfing score and a multiplier
\* that was raised, and neither returned a score
C18_NoFinalScore ==
    /\ pc = "rescored"
    /\ detector.lower < detector.higher
    /\ CategoryScore(2, detector.account) > 0
    /\ detector.first.exc = "TypeError"
    /\ error = "TypeError"

\* ------------------------------------------------- properties: memory store
LastCall == detector.call
\* the items the last call found that were no older than the TTL when it
\* was made, in the order of the store
FreshFound ==
    SelectSeq(LastCall.found, LAMBDA item : LastCall.at - item.ts <= ttl_seconds)
\* the items the last call found that were older than the TTL
StaleFound ==
    {item \in Range(LastCall.found) : LastCall.at - item.ts > ttl_seconds}
DistinctKeys(store) ==
    \A i, j \in 1..Len(store) : store[i].key = store[j].key => i = j
\* the items of the store other than the one of key
Others(store, key) == {item \in Range(store) : item.key # key}
\* the key of the last set was fresh in the store / was not, and the store
\* was full
SetOfPresentKey == LastCall.name = "set" /\ LastCall.key \in KeysOf(FreshFound)
SetOfNewKeyWhenFull ==
    /\ LastCall.name = "set"
    /\ LastCall.key \notin KeysOf(FreshFound)
    /\ Len(FreshFound) >= max_items

\* C19: the store never holds more than max_items entries; a set of a new
\* key into a full store (expired entries purged) removes exactly one entry,
\* whose last set is the oldest, and a set of a present key replaces its
\* value, makes it the newest entry and removes no other entry.
C19_CapacityAndEviction ==
    pc = "store" =>
       /\ Len(detector._store) <= max_items
       /\ DistinctKeys(detector._store)
       /\ LastCall.name = "set" =>
             LET after == detector._store
                 newest == after[Len(after)]
             IN  /\ newest.key = LastCall.key
                 /\ newest.value = LastCall.value
                 /\ \A item \in Range(after) : item.ts <= newest.ts
                 /\ SetOfPresentKey =>
                       Others(after, LastCall.key) = Others(FreshFound, LastCall.key)
                 /\ SetOfNewKeyWhenFull =>
                       \E victim \in Range(FreshFound) :
                          /\ Others(after, LastCall.key) = Range(FreshFound) \ {victim}
                          /\ \A item \in Range(FreshFound) : victim.ts <= item.ts

\* a set of a new key found the store full of fresh entries of different
\* age and removed the older one; the newer one is still there
C19_Witness ==
    /\ pc = "store"
    /\ SetOfNewKeyWhenFull
    /\ Len(FreshFound) = max_items
    /\ FreshFound[1].ts < FreshFound[Len(FreshFound)].ts
    /\ FreshFound[1] \notin Range(detector._store)
    /\ FreshFound[Len(FreshFound)] \in Range(detector._store)

\* C20: get returns None for a key that is not in the store (so for a key
\* never set) and never an entry older than the TTL; every set and every
\* get removes the entries older than the TTL, which therefore take no room
\* from a new key.
C20_ExpiryContract ==
    pc = "store" =>
       /\ LastCall.name = "get" =>
             /\ LastCall.key \notin KeysOf(LastCall.found)
                   => detector.returned = PyNone
             /\ detector.returned # PyNone =>
                   \E item \in Range(LastCall.found) :
                      /\ item.key = LastCall.key
                      /\ detector.returned = PyResult(item.value)
                      /\ LastCall.at - item.ts <= ttl_seconds
             /\ detector._store = FreshFound
       /\ LastCall.name \in {"set", "get"} =>
             \A item \in StaleFound : item \notin Range(detector._store)
       /\ (/\ LastCall.name = "set"
           /\ LastCall.key \notin KeysOf(FreshFound)
           /\ Len(FreshFound) < max_items) =>
             Others(detector._store, LastCall.key) = Range(FreshFound)

\* a get of a key whose entry is older than the TTL, next to a fresh entry
ExpiredGet ==
    /\ LastCall.name = "get"
    /\ \E item \in StaleFound : item.key = LastCall.key
    /\ FreshFound # << >>

\* a full store held an entry older than the TTL and a fresh one; a set of
\* a new key removed the first and kept the second
C20_Witness ==
    /\ pc = "store"
    /\ LastCall.name = "set"
    /\ Len(LastCall.found) = max_items
    /\ StaleFound # {}
    /\ FreshFound # << >>
    /\ LastCall.key \notin KeysOf(LastCall.found)
    /\ Range(FreshFound) \subseteq Range(detector._store)
    /\ Len(detector._store) = Len(FreshFound) + 1

\* ------------------------------------------ properties: least recently used
\* the keys the last call found fresh, least recently used first
FreshUsed ==
    SelectSeq(LastCall.used, LAMBDA k : k \in KeysOf(FreshFound))

\* C21 (as stated): a set of a new key into a full store evicts the least
\* recently used entry, a get that returns an entry being a use of it.
C21_EvictsLeastRecentlyUsed ==
    (pc = "cache" /\ SetOfNewKeyWhenFull) =>
        /\ FreshUsed[1] \notin KeysOf(detector._store)
        /\ \A i \in 2..Len(FreshUsed) : FreshUsed[i] \in KeysOf(detector._store)

\* a full store held an entry that was read after a later entry was set;
\* the set of a new key evicted the entry that was read and kept the entry
\* that was set later and never read
C21_ReadEntryEvicted ==
    /\ pc = "cache"
    /\ SetOfNewKeyWhenFull
    /\ Len(FreshFound) >= 2
    /\ FreshUsed[Len(FreshUsed)] = FreshFound[1].key
    /\ FreshFound[1].key \notin KeysOf(detector._store)
    /\ FreshUsed[1] \in KeysOf(detector._store)

\* --------------------------------------------------- properties: build_graph
RowsFrom(acc) == {i \in 1..Len(df) : df[i].sender_id = acc}
RowsTo(acc) == {i \in 1..Len(df) : df[i].receiver_id = acc}
RowsOn(e) == RowsFrom(e[1]) \cap RowsTo(e[2])
RECURSIVE SumOfAmounts(_)
SumOfAmounts(rows) ==
    IF rows = {} THEN 0
    ELSE LET i == CHOOSE i \in rows : TRUE
         IN  df[i].amount + SumOfAmounts(rows \ {i})
RECURSIVE SumOfCounts(_)
SumOfCounts(edges) ==
    IF edges = {} THEN 0
    ELSE LET e == CHOOSE e \in edges : TRUE
         IN  G.edges[e].count + SumOfCounts(edges \ {e})

\* C22: the nodes of the graph are the senders and the receivers, with the
\* number of rows sent, received and both as attributes; every pair with a
\* row has one edge, with the number of its rows as count and the sum of
\* their amounts as weight, and the counts add up to the number of rows.
C22_GraphOfTable ==
    pc = "graph_built" =>
       /\ DOMAIN G.nodes = {df[i].sender_id : i \in 1..Len(df)}
                           \cup {df[i].receiver_id : i \in 1..Len(df)}
       /\ \A acc \in DOMAIN G.nodes :
             /\ G.nodes[acc].out_degree_count = Cardinality(RowsFrom(acc))
             /\ G.nodes[acc].in_degree_count = Cardinality(RowsTo(acc))
             /\ G.nodes[acc].total_transactions
                   = G.nodes[acc].out_degree_count + G.nodes[acc].in_degree_count
       /\ DOMAIN G.edges = {e \in (DOMAIN G.nodes) \X (DOMAIN G.nodes) : RowsOn(e) # {}}
       /\ \A e \in DOMAIN G.edges :
             /\ G.edges[e].count = Cardinality(RowsOn(e))
             /\ G.edges[e].count >= 1
             /\ G.edges[e].weight = SumOfAmounts(RowsOn(e))
       /\ SumOfCounts(DOMAIN G.edges) = Len(df)

\* a table with several rows on one pair and a row on another
C22_Witness ==
    /\ pc = "graph_built"
    /\ \E e \in DOMAIN G.edges : G.edges[e].count >= 2
    /\ Cardinality(DOMAIN G.edges) >= 2
    /\ \E acc \in DOMAIN G.nodes :
          G.nodes[acc].out_degree_count >= 2 /\ G.nodes[acc].in_degree_count >= 1

\* ------------------------------------- properties: limits of the enumeration
InCycleRun == pc \in {"cycle_run", "cycle_next_scc", "cycle_enumerate", "cycle_returned"}
OversizedSccs ==
    {scc \in strongly_connected_components(G) :
        Cardinality(scc) > detector.caps.max_scc_size}

\* SCCs above the size limit are skipped: none of their members is flagged
OversizedSkipped ==
    pc = "cycle_returned" =>
       \A scc \in OversizedSccs : scc \cap DOMAIN algo_results[1].account_flags = {}

\* C23 (as stated): in each SCC the loop takes at most MAX_CYCLES_PER_SCC
\* cycles from the enumeration, every enumerated cycle counting and not
\* only those kept by the filters; oversized SCCs are skipped and none of
\* their members is flagged.
C23_EnumerationCapped ==
    InCycleRun =>
       /\ detector.considered <= detector.caps.max_cycles_per_scc
       /\ OversizedSkipped

\* the loop has examined more cycles of one SCC than the limit, the cycles
\* dropped by a filter not having been counted
C23_FilteredNotCounted ==
    /\ pc = "cycle_enumerate"
    /\ detector.considered > detector.caps.max_cycles_per_scc
    /\ detector.cycles_in_scc <= detector.caps.max_cycles_per_scc

\* ----------------------------------------- properties: limit on the chains
\* C24 (as stated): at every point of a run of the shell detector at most
\* MAX_CHAINS chains are recorded.
C24_ChainsCapped ==
    pc \in {"shell_sources", "shell_returned"} =>
       /\ Cardinality(detector.seen_paths) <= detector.max_chains
       /\ Len(detector.result.clusters) <= detector.max_chains

\* the search from one source has recorded more chains than the limit
C24_LimitPassedWithinSource ==
    /\ pc = "shell_sources"
    /\ detector.sources # << >>
    /\ Cardinality(detector.seen_paths) > detector.max_chains
    /\ \A path \in detector.seen_paths : path[1] = 1

\* ------------------------------------------------ properties: payroll rule
PayrollOutgoing == SelectSeq(df, LAMBDA row : row.sender_id = detector.account)
PayrollAmountsSent == [i \in 1..Len(PayrollOutgoing) |-> PayrollOutgoing[i].amount]
PayrollIntervals ==
    Diffs(SortedList([i \in 1..Len(PayrollOutgoing) |-> PayrollOutgoing[i].timestamp],
                     LAMBDA a, b : a < b))
\* fewer than 2 outgoing rows, a mean amount of 0, or a mean interval of 0
PayrollDegenerate ==
    \/ Len(PayrollOutgoing) < 2
    \/ SumOfSeq(PayrollAmountsSent) = 0
    \/ SumOfSeq(PayrollIntervals) = 0
\* the tier of the two CVs against their thresholds
PayrollTierOfCvs ==
    LET amount_low(thresh) == CvBelow(PayrollAmountsSent, thresh)
        interval_low(thresh) == CvBelow(PayrollIntervals, thresh)
        amt == payroll_amount_cv_threshold
        int == payroll_interval_cv_threshold
    IN  IF amount_low(HalfOf(amt)) /\ interval_low(HalfOf(int)) THEN 1
        ELSE IF amount_low(amt) /\ interval_low(int) THEN 2
        ELSE IF amount_low(amt) \/ interval_low(int) THEN 5
        ELSE 10

\* C25 (as stated): the payroll rule returns 1.0 when the account has fewer
\* than 2 outgoing rows, a mean outgoing amount of 0 or a mean interval of
\* 0; otherwise 0.1, 0.2, 0.5 or 1.0 by the tier of the two CVs.
C25_PayrollTiers ==
    pc = "payroll_returned" =>
       detector.returned = (IF PayrollDegenerate THEN 10 ELSE PayrollTierOfCvs)

\* all outgoing rows of the account share one timestamp and one amount, and
\* the rule returned 0.1
C25_SameTimestampSuppressed ==
    /\ pc = "payroll_returned"
    /\ Len(PayrollOutgoing) >= 2
    /\ SumOfSeq(PayrollIntervals) = 0
    /\ SumOfSeq(PayrollAmountsSent) > 0
    /\ detector.returned = 1

\* the rule agrees with the stated tiers whenever the mean interval is not 0
PayrollTiersElsewhere ==
    (pc = "payroll_returned" /\ SumOfSeq(PayrollIntervals) # 0) =>
       detector.returned = (IF PayrollDegenerate THEN 10 ELSE PayrollTierOfCvs)

\* -------------------------------------- properties: a ring's type and risk
\* the labels of a ring's members that suppression has not hidden
ShownLabels(ring) ==
    UNION {{p \in Range(Get(combined_flags, acc, << >>)) :
               p \notin Range(Get(suppressed_flags, acc, << >>))} :
              acc \in Range(ring.member_accounts)}
\* the family a label belongs to by its prefix cycle_, smurfing_, shell_ or
\* velocity_
FamilyByPrefix(p) ==
    CASE p \in {"cycle_length_3", "cycle_length_4", "cycle_length_5"} -> "cycle"
      [] p \in {"smurfing_fan_in", "smurfing_fan_out"} -> "smurfing"
      [] p \in {"shell_intermediary", "shell_source"} -> "shell"
      [] p = "velocity_spike" -> "velocity"
      [] OTHER -> "none"
\* the family of a label, the four labels of the velocity detector being
\* the velocity family
FamilyOfLabel(p) ==
    IF p \in {"burst_activity", "high_velocity", "velocity_spike", "dormancy_break"}
    THEN "velocity" ELSE FamilyByPrefix(p)
TypeOfFamilies(families) ==
    IF Cardinality(families) >= 2 THEN "mixed"
    ELSE IF Cardinality(families) = 1 THEN CHOOSE f \in families : TRUE
    ELSE "unknown"

\* C26 (as stated): pattern_type is the one family present among the
\* members' effective labels, families being told by the prefixes cycle_,
\* smurfing_, shell_ and velocity_; "mixed" for two or more, "unknown" for
\* none.
C26_TypeByPrefix ==
    pc = "returned" =>
       \A i \in 1..Len(rings) :
          rings[i].pattern_type
             = TypeOfFamilies({FamilyByPrefix(p) : p \in ShownLabels(rings[i])} \ {"none"})

\* C26 (amended): the same, with the velocity family being the four labels
\* burst_activity, high_velocity, velocity_spike and dormancy_break.
C26_TypeByFamily ==
    pc = "returned" =>
       \A i \in 1..Len(rings) :
          rings[i].pattern_type
             = TypeOfFamilies({FamilyOfLabel(p) : p \in ShownLabels(rings[i])})

\* a ring of type velocity whose only shown label is burst_activity, a
\* label of another family being hidden by suppression
C26_Witness ==
    /\ pc = "returned"
    /\ Len(rings) = 1
    /\ ShownLabels(rings[1]) = {"burst_activity"}
    /\ rings[1].pattern_type = "velocity"
    /\ \E acc \in DOMAIN suppressed_flags :
          \E p \in Range(suppressed_flags[acc]) : FamilyOfLabel(p) # "velocity"

\* the number of the families cycle, smurfing and shell among a ring's
\* shown labels
BonusFamilies(ring) ==
    Cardinality({FamilyByPrefix(p) : p \in ShownLabels(ring)}
                \cap {"cycle", "smurfing", "shell"})
MemberScoreSum(ring) ==
    SumOver([acc \in Range(ring.member_accounts) |-> scores[acc]],
            Range(ring.member_accounts))
ExpectedRisk(ring) ==
    LET n == Len(ring.member_accounts)
        pattern_bonus == Min(15000, 5000 * (BonusFamilies(ring) - 1))
        cycle3_bonus == IF "cycle_length_3" \in ShownLabels(ring) THEN 10000 ELSE 0
    IN  Min(100000,
            RoundTo(MemberScoreSum(ring) + n * (pattern_bonus + cycle3_bonus), n, 100))

\* C27: risk_score = min(100, round(mean member score + pattern_bonus +
\* cycle3_bonus, 1)), velocity not counting for the pattern bonus, and the
\* risk lies between 0 and 100, also for a ring with none of the three
\* families.
C27_RingRisk ==
    pc = "returned" =>
       \A i \in 1..Len(rings) :
          /\ rings[i].risk_score = ExpectedRisk(rings[i])
          /\ 0 <= rings[i].risk_score
          /\ rings[i].risk_score <= 100000

\* a ring with none of the three families, its risk 5 below the mean of
\* its members' scores
C27_Witness ==
    /\ pc = "returned"
    /\ Len(rings) = 1
    /\ BonusFamilies(rings[1]) = 0
    /\ ShownLabels(rings[1]) # {}
    /\ 2 * rings[1].risk_score = MemberScoreSum(rings[1]) - 10000

\* a ring whose mean score and bonuses pass 100
RiskCapped ==
    /\ pc = "returned"
    /\ Len(rings) = 1
    /\ rings[1].risk_score = 100000
    /\ MemberScoreSum(rings[1]) < 200000
\* ----------------------------------------------- properties: velocity spike
SendersWithTwoSends ==
    {a \in {df[i].sender_id : i \in 1..Len(df)} :
        Cardinality({i \in 1..Len(df) : df[i].sender_id = a}) >= 2}
LatestSend(a) ==
    CHOOSE t \in {df[i].timestamp : i \in 1..Len(df)} :
        /\ \E i \in 1..Len(df) : df[i].sender_id = a /\ df[i].timestamp = t
        /\ \A i \in 1..Len(df) : df[i].sender_id = a => df[i].timestamp <= t
\* the number of sends of a at the hours t with lo < t <= hi
SendsLeftOpen(a, lo, hi) ==
    Cardinality({i \in 1..Len(df) : /\ df[i].sender_id = a
                                    /\ lo < df[i].timestamp
                                    /\ df[i].timestamp <= hi})
\* the number of sends of a at the hours t with lo <= t < hi
SendsRightOpen(a, lo, hi) ==
    Cardinality({i \in 1..Len(df) : /\ df[i].sender_id = a
                                    /\ lo <= df[i].timestamp
                                    /\ df[i].timestamp < hi})
SpikeFlagged(a) ==
    "velocity_spike" \in Range(Get(detector.result.account_flags, a, << >>))

\* C28 (as stated): a sender with at least 2 sends is flagged velocity_spike
\* iff previous_count > 0 and current_count / previous_count >=
\* velocity_spike_ratio, with current_count the sends in (latest - w, latest]
\* and previous_count the sends in (latest - 2w, latest - w]: a send exactly
\* at latest - w counts as previous, one exactly at latest - 2w in neither.
C28_SpikeWindows ==
    pc = "velocity_dormancy" =>
       \A a \in SendersWithTwoSends :
          LET latest == LatestSend(a)
              w == velocity_spike_window_hours
              current_count == SendsLeftOpen(a, latest - w, latest)
              previous_count == SendsLeftOpen(a, latest - 2 * w, latest - w)
          IN  SpikeFlagged(a) <=>
                 /\ previous_count > 0
                 /\ current_count >= velocity_spike_ratio * previous_count

\* a sender with a send exactly at latest - w and none in the window before
\* it is not flagged, though its sends after latest - w are at least
\* velocity_spike_ratio times those at latest - w
C28_BoundarySendIsCurrent ==
    /\ pc = "velocity_dormancy"
    /\ \E a \in SendersWithTwoSends :
          LET latest == LatestSend(a)
              w == velocity_spike_window_hours
          IN  /\ SendsLeftOpen(a, latest - w - 1, latest - w) > 0
              /\ SendsRightOpen(a, latest - 2 * w, latest - w) = 0
              /\ SendsLeftOpen(a, latest - w, latest)
                    >= velocity_spike_ratio * SendsLeftOpen(a, latest - w - 1, latest - w)
              /\ ~SpikeFlagged(a)

\* the windows the detector counts: current_count the sends in
\* [latest - w, latest], previous_count the sends in [latest - 2w, latest - w)
SpikeWindowsClosedLeft ==
    pc = "velocity_dormancy" =>
       \A a \in SendersWithTwoSends :
          LET latest == LatestSend(a)
              w == velocity_spike_window_hours
              current_count == SendsRightOpen(a, latest - w, latest + 1)
              previous_count == SendsRightOpen(a, latest - 2 * w, latest - w)
          IN  SpikeFlagged(a) <=>
                 /\ previous_count > 0
                 /\ current_count >= velocity_spike_ratio * previous_count

\* a send exactly at latest - 2w is the whole previous window of a flagged
\* sender
SpikeOnFarBoundary ==
    /\ pc = "velocity_dormancy"
    /\ \E a \in SendersWithTwoSends :
          LET latest == LatestSend(a)
              w == velocity_spike_window_hours
          IN  /\ SendsLeftOpen(a, latest - 2 * w, latest - w) = 0
              /\ SendsLeftOpen(a, latest - 2 * w - 1, latest - 2 * w) > 0
              /\ SpikeFlagged(a)
\* ------------------------------------- properties: order of the enumeration
BothRunsDone == pc = "cycle_returned" /\ result # << >>
LabelSets(res) ==
    [acc \in DOMAIN res.account_flags |-> Range(res.account_flags[acc])]

\* C29 (as stated): on SCCs with fewer than _MAX_CYCLES_PER_SCC valid
\* cycles, the clusters, each account's label set and each account's cycle
\* score that the detector returns are the same for every order in which
\* the cycles are enumerated, two cycles over the same accounts included.
C29_OrderIndependent ==
    BothRunsDone =>
       /\ Range(algo_results[1].clusters) = Range(result[1].clusters)
       /\ LabelSets(algo_results[1]) = LabelSets(result[1])
       /\ algo_results[1].account_scores = result[1].account_scores

\* two runs on a table with both directions of a triangle return the same
\* clusters and labels and different scores
C29_ScoresDependOnOrder ==
    /\ BothRunsDone
    /\ \E a \in 1..(NumNodes - 2) :
          PairsOf(<< a, a + 1, a + 2 >>) \cup PairsOf(<< a, a + 2, a + 1 >>)
             \subseteq DOMAIN G.edges
    /\ Range(algo_results[1].clusters) = Range(result[1].clusters)
    /\ LabelSets(algo_results[1]) = LabelSets(result[1])
    /\ \E acc \in DOMAIN result[1].account_scores :
          algo_results[1].account_scores[acc] # result[1].account_scores[acc]

\* the clusters and the label sets do not depend on the order
ClustersAndLabelsAgree ==
    BothRunsDone =>
       /\ Range(algo_results[1].clusters) = Range(result[1].clusters)
       /\ LabelSets(algo_results[1]) = LabelSets(result[1])
       /\ DOMAIN algo_results[1].account_scores = DOMAIN result[1].account_scores
====
